---------------------------- MODULE Spec2Model ----------------------------
(***************************************************************************)
(* BitcoinMiningLab: the mining cycle with its best-block watchdog and the *)
(* nonce search (GetBlockTemplate/main.py, RPC-Based/miner.py), the        *)
(* Stratum pool server (StratumV1/prototipo-1/stratum_miner.py) and the    *)
(* multi-process launcher (GetBlockTemplate/launcher.py), the Stratum     *)
(* client (stratumV1/stratum_client.py) and the miner that reads its       *)
(* job.json (StratumV1/old/miner.py).                                      *)
(*                                                                         *)
(* Six specifications share the variables: MinerSpec, PoolSpec,            *)
(* LauncherSpec, ClientSpec, JobSpec and FnSpec (the library functions,    *)
(* each called on its own with its arguments drawn from a bounded set).    *)
(* Each moves only its own part of the state; PoolLiveSpec, ClientLiveSpec *)
(* and JobLiveSpec add the fairness of the threads.                        *)
(***************************************************************************)
EXTENDS Integers, Sequences, FiniteSets, TLC

VARIABLES
    \* ---- node and wall clock (environment of the mining cycle) ----
    now,            \* time.time(), in seconds
    bestHash,       \* the node's best-block hash
    \* ---- main(): the mining cycle ----
    cy_pc,          \* position of main() in its while-loop
    nonce_mode,     \* config.NONCE_MODE
    template,       \* the block template of the current cycle
    modified_target,\* target_hex handed to mine_block
    submitted,      \* the last call of submitblock: header, template, target
    cycle_error,    \* the error main() has logged in this pass of its loop
    \* ---- watchdog_bestblock thread ----
    stop_event,     \* threading.Event
    wd_pc, last_hash, new_hash, wd_wake,
    \* ---- mine_block ----
    mb_pc,          \* "idle" | "loop" | "batch" | "returned"
    mid,            \* the SHA-256 context that absorbed the first 76 header bytes
    header,         \* the mutable 80-byte header
    nonce,          \* base nonce of the current batch (32 bit)
    attempts, last_tsu, batches,
    draws,          \* calls of random.randint made by mine_block
    mined,          \* what mine_block returned: [header, nonce, attempts]
    \* ---- Stratum pool server ----
    job,            \* contents of job.json
    solution,       \* contents of solution.json
    conn_pc,        \* per connection: position of handle_client
    inbox,          \* per connection: lines sent by the client, not yet read
    eof,            \* per connection: the client closed its side
    sent,           \* number of lines the clients have sent
    outbox,         \* per connection: messages sent by handle_client
    \* ---- launcher ----
    ln_pc,          \* launch(): "init" | "running" | "joined" | "stopped"
    base_ex2, nprocs,
    worker_ex2,     \* per worker: main.EXTRANONCE2 patched by _worker
    queue,          \* the mp.Queue between the workers and _aggregate
    rates, agg_attempts, block_hash, winner_idx, winner_attempts,
    agg_pc,         \* _aggregate: "idle" | "running" | "returned"
    reason,         \* what _aggregate returned
    restarts,       \* passes of launch()'s loop so far
    \* ---- a library function called on its own ----
    fn_name,        \* the function
    fn_args,        \* its arguments
    fn_done,        \* whether it has returned
    fn_ret,         \* what it returned
    \* ---- Stratum client (stratumV1/stratum_client.py) and its pool ----
    sock,           \* the global sock: the number of the connection, 0 is None
    connected,      \* the global connected
    lock,           \* threading.Lock: "free" or the thread that holds it
    th_pc,          \* per thread ("main", "recv"): its position
    th_ret,         \* per thread: where connect_to_pool returns to
    rx_sock,        \* the connection the receiver's recv is blocked on
    client_extranonce1, \* the global extranonce1
    pool_rx,        \* per connection: the methods the pool has received
    answered,       \* per connection: how many of them the pool has answered
    pool_inbox,     \* per connection: messages of the pool not yet received
    pool_closed,    \* the connections the pool has closed
    notified,       \* mining.notify messages the pool has sent
    job_file,       \* job.json of the client's directory
    job_mtime,      \* os.path.getmtime("job.json")
    \* ---- StratumV1/old/miner.py ----
    om_pc,          \* "off" | "exited" | "check" | "search" | "crashed"
    last_job_mtime, \* mine(): last_job_mtime
    om_job,         \* mine(): the job it searches on
    om_batches,     \* passes of the inner "while True"
    extranonce2_counter

envVars    == <<now, bestHash>>
cycleVars  == <<cy_pc, nonce_mode, template, modified_target, submitted,
                cycle_error>>
wdVars     == <<stop_event, wd_pc, last_hash, new_hash, wd_wake>>
mineVars   == <<mb_pc, mid, header, nonce, attempts, last_tsu, batches, draws, mined>>
minerVars  == <<envVars, cycleVars, wdVars, mineVars>>
poolVars   == <<job, solution, conn_pc, inbox, eof, sent, outbox>>
launchVars == <<ln_pc, base_ex2, nprocs, worker_ex2, queue, rates, agg_attempts,
                block_hash, winner_idx, winner_attempts, agg_pc, reason, restarts>>
fnVars     == <<fn_name, fn_args, fn_done, fn_ret>>
scVars     == <<sock, connected, lock, th_pc, th_ret, rx_sock,
                client_extranonce1, pool_rx, answered, pool_inbox, pool_closed,
                notified, job_file, job_mtime>>
omVars     == <<om_pc, last_job_mtime, om_job, om_batches, extranonce2_counter>>
clientVars == <<scVars, omVars>>
vars       == <<minerVars, poolVars, launchVars, fnVars, clientVars>>

(***************************************************************************)
(* Bounds of the model.                                                    *)
(***************************************************************************)
TickSeconds == 10      \* the clock advances in steps of this many seconds
MaxClock    == 30      \* the clock stops here
MaxNewBlocks == 1      \* blocks the network finds during a run
MaxBatches  == 2       \* nonce batches searched by one mine_block call
HashMod     == 17      \* size of the stand-in hash space
MaxConns    == 2       \* pool connections
MaxLines    == 4       \* lines the pool's clients send, all together
MaxJobWrites == 1      \* times job.json is rewritten while the pool runs
MaxWidth    == 2       \* hex digits of the base extranonce2
MaxProcs    == 2       \* worker processes
MaxQueue    == 1       \* messages waiting in the launcher's queue
MaxRestarts == 1       \* restarts of the workers
MaxTxs      == 3       \* transactions handed to serialize_block
MaxLeaves   == 4       \* transaction ids in a Merkle tree
MaxCoinbaseLen == 4    \* characters of the coinbase handed to split_coinbase
MaxExLen    == 1       \* characters of each extranonce handed to it
MaxNonce    == 3       \* max_nonce handed to test_miner.mine
MaxSockets  == 2       \* connections the Stratum client opens
MaxNotifies == 2       \* mining.notify messages the pool sends to it
MaxOmBatches == 2      \* batches until old/miner.py's nonce passes 2^32
MaxShares   == 1       \* shares old/miner.py finds on one job

(***************************************************************************)
(* Program constants.                                                      *)
(***************************************************************************)
CHECK_INTERVAL == 20
TIMESTAMP_UPDATE_INTERVAL == 30
BATCH == 8
LOG_INT == 1000000
NoneHash == 0          \* get_best_block_hash returning None
DIFF == 1000
EXTRANONCE2_SIZE == 4

(***************************************************************************)
(* Bytes, 32-bit words and the stand-in for SHA-256.                       *)
(***************************************************************************)
\* A 32-bit unsigned word, kept as two 16-bit halves.
U32(h, l) == [hi |-> h, lo |-> l]
FromInt(t) == U32((t \div 65536) % 65536, t % 65536)

\* (n + k) & 0xFFFFFFFF, for 0 <= k < 65536
AddU32(n, k) ==
    LET s == n.lo + k
    IN  U32((n.hi + (s \div 65536)) % 65536, s % 65536)

\* struct.pack("<I", n)
pack_I(n) == << n.lo % 256, n.lo \div 256, n.hi % 256, n.hi \div 256 >>

\* The sequence of the n values f[1], ..., f[n], written out.
AsSeq(f, n) == SubSeq(f, 1, n)

\* b[::-1]
Reversed(b) == AsSeq([k \in 1..Len(b) |-> b[Len(b) + 1 - k]], Len(b))

\* Bytes compared as Python compares bytes objects of equal length:
\* lexicographically, that is as big-endian numbers.
BytesLess(a, b) ==
    \E k \in 1..Len(a) :
        /\ a[k] < b[k]
        /\ \A j \in 1..(k - 1) : a[j] = b[j]

\* The stand-in for SHA-256.  A context holds the running value of the bytes
\* absorbed so far and their count; the byte at position p weighs (p % 7) + 1.
RECURSIVE Weighted(_, _, _, _)
Weighted(b, off, lo, hi) ==
    IF lo > hi THEN 0
    ELSE IF lo = hi THEN (((off + lo) % 7) + 1) * b[lo]
    ELSE LET m == (lo + hi) \div 2
         IN  Weighted(b, off, lo, m) + Weighted(b, off, m + 1, hi)

\* hashlib.sha256()
sha_new == [acc |-> 0, len |-> 0]

\* h.update(data)
sha_update(h, data) ==
    [acc |-> (h.acc + Weighted(data, h.len, 1, Len(data))) % HashMod,
     len |-> h.len + Len(data)]

\* h.digest(): 32 bytes in wire order.  The last byte (the first in display
\* order) carries the value; the value HashMod-1 gives the all-ones digest.
sha_digest(h) ==
    LET s == h.acc
    IN  AsSeq([k \in 1..32 |->
                  IF s = HashMod - 1 THEN 255
                  ELSE IF k = 32 THEN s
                  ELSE (s + k) % 256], 32)

\* hashlib.sha256(data).digest()
sha256(data) == sha_digest(sha_update(sha_new, data))

\* hashlib.sha256(hashlib.sha256(data).digest()).digest()
double_sha256(data) == sha256(sha256(data))

\* _midstate(prefix): a context that has absorbed prefix
midstate(prefix) == sha_update(sha_new, prefix)

\* int(target_hex, 16).to_bytes(32, "big"), target_hex of 64 hex digits
target_be(target_hex) ==
    AsSeq([k \in 1..32 |-> 16 * target_hex[2 * k - 1] + target_hex[2 * k]], 32)

(***************************************************************************)
(* Inputs of the mining cycle.                                             *)
(***************************************************************************)
NonceModes == {"incremental", "random", "mixed"}

\* A hash in display order: 32 bytes, the last one carrying the identity.
HashBytes(id) == AsSeq([k \in 1..32 |-> IF k = 32 THEN id ELSE 0], 32)

\* The template before the first getblocktemplate.
NoTemplate == [height |-> 0, version |-> 0, previousblockhash |-> <<>>,
               merkle_root |-> <<>>, curtime |-> 0, bits |-> <<>>,
               transactions |-> <<>>]

\* modified_target before modifica_target has returned one
NoTarget == <<>>

\* The largest target, 2^256 - 1: modifica_target clamps to it.
MaxTargetHex == AsSeq([k \in 1..64 |-> 15], 64)

\* Values random.randint(0, 0xFFFFFFFF) may return.
RandomNonces == { U32(0, 3), U32(65535, 65530) }

NoHeader == <<>>
NotSubmitted == [header |-> NoHeader, height |-> 0, target |-> <<>>]
NotMined == [header |-> NoHeader, nonce |-> U32(0, 0), attempts |-> 0]

\* build_block_header(version, prev_hash, merkle_root, timestamp, bits, nonce)
build_block_header(version, prev_hash, merkle_root, timestamp, bits, n) ==
    pack_I(FromInt(version)) \o Reversed(prev_hash) \o Reversed(merkle_root)
        \o pack_I(FromInt(timestamp)) \o Reversed(bits) \o pack_I(n)

\* get_best_block_hash(rpc): the node's best hash, or None when the call fails
BestBlockPoll == {bestHash, NoneHash}

(***************************************************************************)
(* The environment: the clock and the network.                             *)
(***************************************************************************)
\* Time passes, up to the moment a sleeping watchdog is due: time.sleep
\* returns when its interval is over.
Tick ==
    /\ now + TickSeconds <= MaxClock
    /\ ~(wd_pc = "sleep" /\ now >= wd_wake)
    /\ now' = IF wd_pc = "sleep" /\ wd_wake < now + TickSeconds
              THEN wd_wake
              ELSE now + TickSeconds
    /\ UNCHANGED <<bestHash, cycleVars, wdVars, mineVars,
                   poolVars, launchVars, fnVars,
                   clientVars>>

\* The network finds a block: the node's best-block hash changes.  Only the
\* template fetch and the watchdog's polls read it; a change that nothing
\* reads any more is left out.
NodeNewBlock ==
    /\ bestHash < 1 + MaxNewBlocks
    /\ cy_pc = "fetch" \/ wd_pc \in {"init", "sleep"}
    /\ bestHash' = bestHash + 1
    /\ UNCHANGED <<now, cycleVars, wdVars, mineVars, poolVars, launchVars, fnVars,
                   clientVars>>

(***************************************************************************)
(* watchdog_bestblock(rpc_conn, stop_event)                                *)
(***************************************************************************)
\* "while not stop_event.is_set(): time.sleep(CHECK_INTERVAL)", read with the
\* event as it is after the step that leads to it.
WdLoop(stopped) ==
    IF stopped
    THEN /\ wd_pc' = "exit"
         /\ UNCHANGED wd_wake
    ELSE /\ wd_pc' = "sleep"
         /\ wd_wake' = now + CHECK_INTERVAL

\* last_hash = get_best_block_hash(rpc_conn)
WdInit ==
    /\ wd_pc = "init"
    /\ \E h \in BestBlockPoll : last_hash' = h
    /\ WdLoop(stop_event)
    /\ UNCHANGED <<stop_event, new_hash, envVars, cycleVars, mineVars,
                   poolVars, launchVars, fnVars,
                   clientVars>>

\* A comparison that only fires once a hash has been recorded.
HashChanged_NeedsRecorded(new, last) ==
    new # NoneHash /\ last # NoneHash /\ new # last

\* "new_hash and new_hash != last_hash"
HashChanged(new, last) == new # NoneHash /\ new # last

\* One pass of the loop, once the sleep is over:
\*   new_hash = get_best_block_hash(rpc_conn)
\*   if new_hash and new_hash != last_hash: stop_event.set()
\*   else: last_hash = new_hash
WdPoll ==
    /\ wd_pc = "sleep"
    /\ now >= wd_wake
    /\ \E h \in BestBlockPoll : new_hash' = h
    /\ IF HashChanged(new_hash', last_hash)
       THEN /\ stop_event' = TRUE
            /\ UNCHANGED last_hash
       ELSE /\ last_hash' = new_hash'
            /\ UNCHANGED stop_event
    /\ WdLoop(stop_event')
    /\ UNCHANGED <<envVars, cycleVars, mineVars, poolVars, launchVars, fnVars,
                   clientVars>>

(***************************************************************************)
(* mine_block(header_hex, target_hex, nonce_mode)                          *)
(***************************************************************************)
\* The nonce mine_block starts from.
InitialNonces(mode) ==
    IF mode = "incremental" THEN { U32(0, 0) } ELSE RandomNonces

\* header with header[a-1:a-1+len(b)] = b  (a is the 1-based position)
Patch(h, a, b) ==
    SubSeq(h, 1, a - 1) \o b \o SubSeq(h, a + Len(b), Len(h))

\* A digest that stops after the first SHA-256 round.
CandidateDigest_OneRound(m, h) == sha_digest(sha_update(m, SubSeq(h, 77, 80)))

\* h1 = mid.copy(); h1.update(nonce_view); h2 = sha2ctx.copy(); h2.update(d1)
CandidateDigest(m, h) == sha256(sha_digest(sha_update(m, SubSeq(h, 77, 80))))

\* if digest[::-1] < target_be
Found(digest, tbe) == BytesLess(Reversed(digest), tbe)

\* Top of "while True": the periodic timestamp refresh.
MineLoopTop ==
    /\ mb_pc = "loop"
    /\ batches < MaxBatches
    /\ IF TIMESTAMP_UPDATE_INTERVAL # 0
          /\ now - last_tsu >= TIMESTAMP_UPDATE_INTERVAL
       THEN LET ts_bytes == pack_I(FromInt(now))
                base76   == SubSeq(header, 1, 68) \o ts_bytes \o SubSeq(header, 73, 76)
            IN  /\ mid' = midstate(base76)
                /\ header' = Patch(Patch(header, 69, ts_bytes), 1, base76)
                /\ last_tsu' = now
       ELSE UNCHANGED <<mid, header, last_tsu>>
    /\ mb_pc' = "batch"
    /\ UNCHANGED <<nonce, attempts, batches, draws, mined, envVars, cycleVars, wdVars,
                   poolVars, launchVars, fnVars,
                   clientVars>>

\* n = (nonce + i) & 0xFFFFFFFF; struct.pack_into("<I", header, 76, n)
Candidate(i) == AddU32(nonce, i)
WithNonce(h, n) == Patch(h, 77, pack_I(n))

\* Whether pass i of "for i in range(BATCH)" meets the target.
Hit(i) ==
    Found(CandidateDigest(mid, WithNonce(header, Candidate(i))),
          target_be(modified_target))

\* The first pass of the batch that returns; BATCH when none does.
RECURSIVE FirstHit(_)
FirstHit(i) ==
    IF i >= BATCH THEN BATCH
    ELSE IF Hit(i) THEN i
    ELSE FirstHit(i + 1)

\* The nonce returned with the header: the candidate that was hashed.
ReturnedNonce(i) == Candidate(i)

\* "for i in range(BATCH)": the first hit returns; with none the counters
\* move on and the periodic log writes the next base nonce into the header.
MineBatch ==
    /\ mb_pc = "batch"
    /\ \E i \in {FirstHit(0)} :
           IF i < BATCH
           THEN /\ header' = WithNonce(header, Candidate(i))
                /\ mined' = [header |-> header', nonce |-> ReturnedNonce(i),
                             attempts |-> attempts + i + 1]
                /\ mb_pc' = "returned"
                /\ UNCHANGED <<nonce, attempts, batches>>
           ELSE /\ attempts' = attempts + BATCH
                /\ nonce' = AddU32(nonce, BATCH)
                /\ header' = IF attempts' % LOG_INT = 0
                             THEN WithNonce(header, nonce')
                             ELSE WithNonce(header, Candidate(BATCH - 1))
                /\ batches' = batches + 1
                /\ mb_pc' = "loop"
                /\ UNCHANGED mined
    /\ UNCHANGED <<mid, last_tsu, draws, envVars, cycleVars, wdVars, poolVars,
                   launchVars, fnVars,
                   clientVars>>

(***************************************************************************)
(* Block serialization: utils.encode_varint, block_builder.serialize_block *)
(***************************************************************************)
\* Integers of up to 64 bits, kept as their 8 bytes in little-endian order.
Le8(b1, b2, b3, b4, b5, b6, b7, b8) == <<b1, b2, b3, b4, b5, b6, b7, b8>>
SmallInt(n) == Le8(n % 256, (n \div 256) % 256, (n \div 65536) % 256,
                   (n \div 16777216) % 256, 0, 0, 0, 0)

\* a <= b
IntLeq(a, b) ==
    \/ a = b
    \/ \E k \in 1..8 : a[k] < b[k] /\ \A j \in (k + 1)..8 : a[j] = b[j]

\* (v.bit_length() + 7) // 8: the bytes up to the highest one that is not 0
ByteLength(v) ==
    IF \A k \in 1..8 : v[k] = 0 THEN 0
    ELSE CHOOSE k \in 1..8 : v[k] # 0 /\ \A j \in (k + 1)..8 : v[j] = 0

Max(a, b) == IF a >= b THEN a ELSE b

\* thresholds = [(0xfd, ""), (0xffff, "fd"), (0xffffffff, "fe"),
\*               (0xffffffffffffffff, "ff")]
thresholds ==
    << [threshold |-> Le8(253, 0, 0, 0, 0, 0, 0, 0), prefix |-> <<>>],
       [threshold |-> Le8(255, 255, 0, 0, 0, 0, 0, 0), prefix |-> <<253>>],
       [threshold |-> Le8(255, 255, 255, 255, 0, 0, 0, 0), prefix |-> <<254>>],
       [threshold |-> Le8(255, 255, 255, 255, 255, 255, 255, 255),
        prefix |-> <<255>>] >>

\* encode_varint(value): the first threshold the value does not exceed gives
\* the prefix and the width; the bytes stand for the returned hex string.
encode_varint(value) ==
    LET k == CHOOSE i \in 1..4 :
                 /\ IntLeq(value, thresholds[i].threshold)
                 /\ \A j \in 1..(i - 1) : ~IntLeq(value, thresholds[j].threshold)
        byte_length == Max(1, ByteLength(thresholds[k].threshold))
    IN  thresholds[k].prefix \o SubSeq(value, 1, byte_length)

\* serialize_block returning None
NoBlock == <<>>

\* "".join(tx["data"] for tx in transactions)
RECURSIVE JoinData(_)
JoinData(transactions) ==
    IF transactions = <<>> THEN <<>>
    ELSE Head(transactions).data \o JoinData(Tail(transactions))

\* A serialization that leaves out the transactions without 'data'.
serialize_block_SkipMissing(header_hex, coinbase_tx, transactions) ==
    header_hex \o encode_varint(SmallInt(Len(transactions) + 1))
        \o coinbase_tx \o JoinData(transactions)

\* serialize_block(header_hex, coinbase_tx, transactions): None when a
\* transaction has no 'data' (KeyError), else
\* header_hex + num_tx_hex + coinbase_tx + transactions_hex.
serialize_block(header_hex, coinbase_tx, transactions) ==
    IF \E k \in 1..Len(transactions) : "data" \notin transactions[k].keys
    THEN NoBlock
    ELSE header_hex \o encode_varint(SmallInt(Len(transactions) + 1))
             \o coinbase_tx \o JoinData(transactions)

(***************************************************************************)
(* Hex strings, the compact target and the errors the functions report.    *)
(***************************************************************************)
\* The error records main() and the rpc functions write to the log.
NoError         == "none"
ConnectionError == "Errore di connessione RPC"
TemplateError   == "Impossibile ottenere il template del blocco"
CycleException  == "Errore nel ciclo di mining"
SubmitError     == "Errore RPC durante submitblock"
RpcErrors       == {ConnectionError, TemplateError, CycleException, SubmitError}

\* bytes.fromhex(h), unhexlify(h)
fromhex(h) ==
    AsSeq([k \in 1..(Len(h) \div 2) |-> 16 * h[2 * k - 1] + h[2 * k]],
          Len(h) \div 2)

\* b.hex(), hexlify(b).decode()
hex(b) ==
    AsSeq([k \in 1..(2 * Len(b)) |->
              IF k % 2 = 1 THEN b[(k + 1) \div 2] \div 16 ELSE b[k \div 2] % 16],
          2 * Len(b))

\* decode_nbits raising "ValueError: negative shift count"
NegativeShift == <<>>

\* decode_nbits(int(nbits, 16)) as the 32 bytes of the target: the
\* significand without its top bit, shifted left by exponent - 3 bytes; an
\* exponent below 3 makes the shift count negative.
decode_nbits(nbits) ==
    LET exponent == nbits[1]
        sig      == << nbits[2] % 128, nbits[3], nbits[4] >>
    IN  IF exponent < 3 THEN NegativeShift
        ELSE AsSeq([k \in 1..32 |->
                       IF k >= 33 - exponent /\ k <= 35 - exponent
                       THEN sig[k - (32 - exponent)] ELSE 0], 32)

(***************************************************************************)
(* The target rescaling: modifica_target of GetBlockTemplate/main.py,      *)
(* calculate_target and modifica_target of StratumV1/test/utils.py.        *)
(***************************************************************************)
\* A difficulty factor (a float): sign * (tenths / 10) * 256^e.
Factor(s, t, x) == [sign |-> s, tenths |-> t, e |-> x]
FactorOne   == Factor(1, 10, 0)
FactorTenth == Factor(1, 1, 0)
FactorZero  == Factor(0, 10, 0)

\* max_target = 0x00000000FFFF0000...0000, as its 32 bytes
MaxTargetBytes == AsSeq([k \in 1..32 |-> IF k \in {5, 6} THEN 255 ELSE 0], 32)

\* int(max_target / 0.1) = 0x000000 09FFF6 00...00
TenTimesMaxTarget ==
    AsSeq([k \in 1..32 |->
              IF k = 4 THEN 9 ELSE IF k = 5 THEN 255 ELSE IF k = 6 THEN 246
              ELSE 0], 32)

\* max_possible_target = (1 << 256) - 1
MaxPossibleTarget == AsSeq([k \in 1..32 |-> 255], 32)

\* int(max_target / difficulty_factor), by its size, as 32 bytes or more: a
\* division by 256^e moves the bytes by e places, int() drops the fraction.
Quotient(f) ==
    LET base == IF f.tenths = 1 THEN TenTimesMaxTarget ELSE MaxTargetBytes
        n    == IF f.e < 0 THEN 0 - f.e ELSE 0
    IN  AsSeq([k \in 1..(32 + n) |->
                  IF k - n - f.e \in 1..32 THEN base[k - n - f.e] ELSE 0],
              32 + n)

\* The "-" of a formatted negative number, among hex digits
MinusSign == -1

RECURSIVE lstrip0(_)
lstrip0(digits) ==
    IF digits # <<>> /\ Head(digits) = 0 THEN lstrip0(Tail(digits)) ELSE digits

\* "if target_value > max_possible_target: target_value = max_possible_target"
\* and f"{target_value:064x}": the sign counts in the width of 64.
FormatTarget(f) ==
    LET q      == Quotient(f)
        extra  == Len(q) - 32
        digits == lstrip0(hex(q))
    IN  IF digits = <<>> THEN hex(SubSeq(q, extra + 1, extra + 32))
        ELSE IF f.sign < 0
        THEN <<MinusSign>>
             \o AsSeq([k \in 1..Max(0, 63 - Len(digits)) |-> 0],
                      Max(0, 63 - Len(digits)))
             \o digits
        ELSE IF \E k \in 1..extra : q[k] # 0 THEN hex(MaxPossibleTarget)
        ELSE hex(SubSeq(q, extra + 1, extra + 32))

\* What the rescaling gives back: the target as 64 hex digits, or an error.
TargetResult(err, target) == [error |-> err, target |-> target]

\* A rescaling that rejects a factor that is not positive.
modifica_target_Rejects(tpl, network, config_factor) ==
    IF config_factor.sign <= 0
    THEN TargetResult("DIFFICULTY_FACTOR deve essere > 0", <<>>)
    ELSE TargetResult(NoError, FormatTarget(config_factor))

\* GetBlockTemplate/main.py: modifica_target(template, rpc_conn), with the
\* chain the node reports and config.DIFFICULTY_FACTOR
modifica_target(tpl, network, config_factor) ==
    LET difficulty_factor ==
            IF network = "regtest"
            THEN IF config_factor.sign < 0 THEN FactorTenth ELSE config_factor
            ELSE FactorOne
        original_target == hex(decode_nbits(tpl.bits))
    IN  IF difficulty_factor.sign = 0
        THEN TargetResult(NoError, original_target)
        ELSE TargetResult(NoError, FormatTarget(difficulty_factor))

\* StratumV1/test/utils.py: calculate_target(template, difficulty_factor,
\* network)
calculate_target(tpl, difficulty_factor, network) ==
    LET original_target == hex(decode_nbits(tpl.bits))
    IN  IF difficulty_factor.sign = 0
        THEN TargetResult(NoError, original_target)
        ELSE TargetResult(NoError, FormatTarget(difficulty_factor))

\* StratumV1/test/utils.py: modifica_target(template, rpc_conn): a negative
\* factor is logged and forced to 0
utils_modifica_target(tpl, network, config_factor) ==
    calculate_target(tpl,
                     IF config_factor.sign < 0 THEN FactorZero ELSE config_factor,
                     network)

(***************************************************************************)
(* main(): one pass of the while-loop is one mining cycle.                 *)
(***************************************************************************)
\* A transaction of the template: a dict with the keys 'txid' and 'data'; the
\* node's answer may lack 'data'.
Tx(id, raw)  == [keys |-> {"txid", "data"}, txid |-> id, data |-> raw]
TxNoData(id) == [keys |-> {"txid"}, txid |-> id, data |-> <<>>]

\* The template the node proposes on top of its best block; its bits
\* 2000ffff encode the target 00ffff followed by zeros.
TemplateOn(best, t) ==
    [height |-> best, version |-> 536870912,
     previousblockhash |-> HashBytes(best), merkle_root |-> HashBytes(100 + best),
     curtime |-> t + 1, bits |-> <<32, 0, 255, 255>>,
     transactions |-> << Tx(7, <<2, 0, 7>>) >>]

\* Where main() goes when a call raises: nothing catches outside the
\* try-block of the loop.
AfterException_NoHandler(inside_try) == "terminated"

\* Where main() goes when a call raises: inside the try-block of the loop
\* "except Exception" logs and falls through to time.sleep(1); outside of it
\* the exception leaves main().
AfterException(inside_try) == IF inside_try THEN "pause" ELSE "terminated"

\* test_rpc_connection(), called before the loop: getblockchaininfo answers,
\* or the exception is logged and raised again.
TestRpcConnection ==
    /\ cy_pc = "startup"
    /\ \E ok \in BOOLEAN :
         IF ok
         THEN cy_pc' = "fetch" /\ UNCHANGED cycle_error
         ELSE cy_pc' = AfterException(FALSE) /\ cycle_error' = ConnectionError
    /\ UNCHANGED <<nonce_mode, template, modified_target, submitted,
                   envVars, wdVars, mineVars, poolVars, launchVars, fnVars,
                   clientVars>>

\* STEP 2: get_block_template returned None: log, time.sleep(5), continue.
CycleFetchFail ==
    /\ cy_pc = "fetch"
    /\ cycle_error' = TemplateError
    /\ cy_pc' = "sleep5"
    /\ UNCHANGED <<nonce_mode, template, modified_target, submitted,
                   envVars, wdVars, mineVars, poolVars, launchVars, fnVars,
                   clientVars>>

\* The end of time.sleep(5): the next pass of the loop.
CycleRetry ==
    /\ cy_pc = "sleep5"
    /\ cy_pc' = "fetch"
    /\ cycle_error' = NoError
    /\ UNCHANGED <<nonce_mode, template, modified_target, submitted,
                   envVars, wdVars, mineVars, poolVars, launchVars, fnVars,
                   clientVars>>

\* STEP 3-5: a call between the template fetch and the start of the watchdog
\* raises (getaddressinfo, getblockchaininfo in modifica_target, a
\* transaction without 'data' in the template statistics).
CycleRaise ==
    /\ cy_pc = "fetch"
    /\ template' = TemplateOn(bestHash, now)
    /\ cycle_error' = CycleException
    /\ cy_pc' = AfterException(TRUE)
    /\ UNCHANGED <<nonce_mode, modified_target, submitted,
                   envVars, wdVars, mineVars, poolVars, launchVars, fnVars,
                   clientVars>>

\* The chain the node reports.
Networks == { "regtest", "main" }

\* The chain of the node the cycle mines on: the lab's node runs regtest.
\* (On the other chains modifica_target is called on its own.)
CycleNetworks == { "regtest" }

\* Values of config.DIFFICULTY_FACTOR: 0 and 256^-5.
ConfigFactors == { FactorZero, Factor(1, 10, -5) }

\* STEP 1-8: template, target, header, the watchdog thread is started and
\* mine_block is entered (its lines up to the while-loop).
CycleStart ==
    /\ cy_pc = "fetch"
    /\ \E network \in CycleNetworks, config_factor \in ConfigFactors,
          n0 \in InitialNonces(nonce_mode) :
         LET tpl        == TemplateOn(bestHash, now)
             target_hex == modifica_target(tpl, network, config_factor).target
             header_hex == build_block_header(tpl.version, tpl.previousblockhash,
                               tpl.merkle_root, tpl.curtime, tpl.bits, U32(0, 0))
             base76     == SubSeq(header_hex, 1, 76)
         IN  /\ template' = tpl
             /\ modified_target' = target_hex
             /\ mid' = midstate(base76)
             /\ header' = base76 \o <<0, 0, 0, 0>>
             /\ nonce' = n0
    /\ stop_event' = FALSE
    /\ wd_pc' = "init"
    /\ last_hash' = NoneHash
    /\ new_hash' = NoneHash
    /\ wd_wake' = 0
    /\ attempts' = 0
    /\ last_tsu' = now
    /\ batches' = 0
    /\ draws' = IF nonce_mode = "incremental" THEN 0 ELSE 1
    /\ mined' = NotMined
    /\ mb_pc' = "loop"
    /\ cy_pc' = "mining"
    /\ UNCHANGED <<nonce_mode, submitted, cycle_error, envVars, poolVars,
                   launchVars, fnVars,
                   clientVars>>

\* mine_block has returned: stop the watchdog; a None header restarts the loop.
CycleAfterMine ==
    /\ cy_pc = "mining"
    /\ mb_pc = "returned"
    /\ stop_event' = TRUE
    /\ mb_pc' = "idle"
    /\ cy_pc' = IF mined.header = NoHeader THEN "fetch" ELSE "serialize"
    /\ UNCHANGED <<nonce_mode, template, modified_target, submitted, cycle_error,
                   wd_pc, last_hash, new_hash, wd_wake,
                   mid, header, nonce, attempts, last_tsu, batches, draws, mined,
                   envVars, poolVars, launchVars, fnVars,
                   clientVars>>

\* The coinbase transaction of the cycle, as serialized bytes.
CoinbaseTx == <<1, 0, 0, 0>>

\* "if not serialized_block: log.error(...); continue", else on to STEP 10.
AfterSerialize(serialized_block) ==
    IF serialized_block = NoBlock THEN "fetch" ELSE "submit"

\* STEP 9: serialize_block
CycleSerialize ==
    /\ cy_pc = "serialize"
    /\ cy_pc' = AfterSerialize(serialize_block(mined.header, CoinbaseTx,
                                               template.transactions))
    /\ UNCHANGED <<nonce_mode, template, modified_target, submitted, cycle_error,
                   envVars, wdVars, mineVars, poolVars, launchVars, fnVars,
                   clientVars>>

\* STEP 10: submit_block: the call of submitblock answers, or it raises and
\* submit_block logs the exception.
CycleSubmit ==
    /\ cy_pc = "submit"
    /\ submitted' = [header |-> mined.header, height |-> template.height,
                     target |-> modified_target]
    /\ \E ok \in BOOLEAN :
         cycle_error' = IF ok THEN cycle_error ELSE SubmitError
    /\ cy_pc' = "pause"
    /\ UNCHANGED <<nonce_mode, template, modified_target,
                   envVars, wdVars, mineVars, poolVars, launchVars, fnVars,
                   clientVars>>

\* The end of time.sleep(1) at the bottom of the loop: the next pass.
CyclePause ==
    /\ cy_pc = "pause"
    /\ cy_pc' = "fetch"
    /\ cycle_error' = NoError
    /\ UNCHANGED <<nonce_mode, template, modified_target, submitted,
                   envVars, wdVars, mineVars, poolVars, launchVars, fnVars,
                   clientVars>>

(***************************************************************************)
(* The Stratum pool server: main() accepts connections, handle_client      *)
(* serves one connection per thread.                                       *)
(***************************************************************************)
Conns == 1..MaxConns

\* The pool's EXTRANONCE1, "1234567890abcdef", as bytes.
EXTRANONCE1 == <<18, 52, 86, 120, 144, 171, 205, 239>>

\* job.json as create_mining_notify_params builds it, fields as bytes.
JobOf(id) ==
    [job_id |-> id, prevhash |-> HashBytes(id), coinb1 |-> <<1, 0, id>>,
     coinb2 |-> <<255, 255>>, merkle_branch |-> << HashBytes(40 + id) >>,
     version |-> <<32, 0, 0, 0>>, nbits |-> <<32, 8, 255, 255>>,
     ntime |-> 100 + id, clean_jobs |-> TRUE]

NoShare == [worker |-> "", job_id |-> 0, extranonce2 |-> <<>>,
            ntime |-> 0, nonce |-> U32(0, 0)]

\* Lines a client may send.  A line is either not JSON at all or a JSON
\* message with a method and parameters.
NotJson == [json |-> FALSE, method |-> "", params |-> <<>>]
Msg(m, p) == [json |-> TRUE, method |-> m, params |-> p]
SubmitNonces == { U32(0, 3), U32(0, 4) }
SubmitParams ==
    { <<"miner.worker", 1, <<0, 0, 0, 7>>, 101, n>> : n \in SubmitNonces }
        \cup { <<"miner.worker", 1>> }
ClientLines ==
    { NotJson, Msg("mining.subscribe", <<>>), Msg("mining.configure", <<>>),
      Msg("mining.authorize", <<>>) }
        \cup { Msg("mining.submit", p) : p \in SubmitParams }

\* Messages handle_client sends.
SubResp       == [kind |-> "sub_resp", extranonce1 |-> EXTRANONCE1,
                  extranonce2_size |-> EXTRANONCE2_SIZE]
ConfigureResp == [kind |-> "configure_resp"]
AuthorizeResp == [kind |-> "authorize_resp", result |-> TRUE]
SetDifficulty == [kind |-> "mining.set_difficulty", diff |-> DIFF]
Notify(j)     == [kind |-> "mining.notify", job_id |-> j.job_id,
                  clean_jobs |-> j.clean_jobs]
SubmitResp(r, p) == [kind |-> "submit_resp", result |-> r, params |-> p]

\* target_to_nbits(target_hex), the target as its 32 bytes and the result as
\* the 4 bytes of the compact value
target_to_nbits(target) ==
    IF \A k \in 1..32 : target[k] = 0 THEN <<0, 0, 0, 0>>
    ELSE LET first    == CHOOSE k \in 1..32 :
                             target[k] # 0 /\ \A j \in 1..(k - 1) : target[j] = 0
             stripped == SubSeq(target, first, 32)
             target_bytes == IF stripped[1] >= 128 THEN <<0>> \o stripped
                             ELSE stripped
             exponent == Len(target_bytes)
             significand ==
                 IF Len(target_bytes) > 3 THEN SubSeq(target_bytes, 1, 3)
                 ELSE AsSeq([k \in 1..3 |->
                                IF k > 3 - Len(target_bytes)
                                THEN target_bytes[k - (3 - Len(target_bytes))]
                                ELSE 0], 3)
         IN  << exponent >> \o significand

\* calc_merkle_root(coinbase_hash_le, branch_le)
RECURSIVE calc_merkle_root(_, _)
calc_merkle_root(h, branch) ==
    IF branch = <<>> THEN h
    ELSE calc_merkle_root(Reversed(double_sha256(h \o Head(branch))), Tail(branch))

\* header_bytes(version_be, prevhash_le, root_le, ntime, nbits_be, nonce)
header_bytes(version_be, prevhash_le, root_le, ntime, nbits_be, n) ==
    Reversed(version_be) \o prevhash_le \o root_le \o pack_I(FromInt(ntime))
        \o Reversed(nbits_be) \o pack_I(n)

\* The share test of the miner's side: the header rebuilt from the job, the
\* extranonce1 and {extranonce2, ntime, nonce} hashes to a value <= target.
ShareMeetsTarget(j, extranonce1, params) ==
    /\ Len(params) >= 5
    /\ LET coinbase         == j.coinb1 \o extranonce1 \o params[3] \o j.coinb2
           coinbase_hash_le == Reversed(double_sha256(coinbase))
           merkle_root_le   == calc_merkle_root(coinbase_hash_le, j.merkle_branch)
           hdr              == header_bytes(j.version, j.prevhash, merkle_root_le,
                                            params[4], j.nbits, params[5])
           hash_be          == Reversed(double_sha256(hdr))
       IN  ~BytesLess(decode_nbits(j.nbits), hash_be)

\* send_json(conn_file, obj)
send_json(c, obj) == outbox' = [outbox EXCEPT ![c] = Append(@, obj)]

\* except/finally of handle_client: the connection is closed.
CloseConn(c) ==
    /\ conn_pc' = [conn_pc EXCEPT ![c] = "closed"]
    /\ inbox' = [inbox EXCEPT ![c] = <<>>]

\* conn_file.readline(): blocks until a line or the end of the stream arrives.
CanRead(c) == inbox[c] # <<>> \/ eof[c]

\* save_share(params): fewer than five parameters are not saved.
save_share(params) ==
    IF Len(params) < 5
    THEN UNCHANGED solution
    ELSE solution' = [worker |-> params[1], job_id |-> params[2],
                      extranonce2 |-> params[3], ntime |-> params[4],
                      nonce |-> params[5]]

\* A first-message test that lets every method pass.
IsSubscribe_AnyMethod(msg) == TRUE

\* msg.get("method") == "mining.subscribe"
IsSubscribe(msg) == msg.method = "mining.subscribe"

\* srv.accept() and the start of the connection's thread
Accept(c) ==
    /\ conn_pc[c] = "absent"
    /\ conn_pc' = [conn_pc EXCEPT ![c] = "subscribe"]
    /\ UNCHANGED <<job, solution, inbox, eof, sent, outbox, minerVars, launchVars,
                   fnVars,
                   clientVars>>

\* The client writes a line.
ClientSend(c) ==
    /\ conn_pc[c] \notin {"absent", "closed"}
    /\ ~eof[c]
    /\ inbox[c] = <<>>
    /\ sent < MaxLines
    /\ \E line \in ClientLines : inbox' = [inbox EXCEPT ![c] = <<line>>]
    /\ sent' = sent + 1
    /\ UNCHANGED <<job, solution, conn_pc, eof, outbox, minerVars, launchVars,
                   fnVars,
                   clientVars>>

\* The client closes its side of the connection.
ClientClose(c) ==
    /\ conn_pc[c] \notin {"absent", "closed"}
    /\ ~eof[c]
    /\ eof' = [eof EXCEPT ![c] = TRUE]
    /\ UNCHANGED <<job, solution, conn_pc, inbox, sent, outbox, minerVars, launchVars,
                   fnVars,
                   clientVars>>

\* job.json is rewritten with the next job (save_job_json).
JobReplace ==
    /\ job.job_id < 1 + MaxJobWrites
    /\ job' = JobOf(job.job_id + 1)
    /\ UNCHANGED <<solution, conn_pc, inbox, eof, sent, outbox, minerVars, launchVars,
                   fnVars,
                   clientVars>>

\* 1) subscribe: the first line.
ReadSubscribe(c) ==
    /\ conn_pc[c] = "subscribe"
    /\ CanRead(c)
    /\ IF inbox[c] = <<>> \/ ~Head(inbox[c]).json \/ ~IsSubscribe(Head(inbox[c]))
       THEN /\ CloseConn(c)
            /\ UNCHANGED outbox
       ELSE /\ send_json(c, SubResp)
            /\ conn_pc' = [conn_pc EXCEPT ![c] = "authorize"]
            /\ inbox' = [inbox EXCEPT ![c] = Tail(@)]
    /\ UNCHANGED <<job, solution, eof, sent, minerVars, launchVars, fnVars,
                   clientVars>>

\* 2) authorize/configure loop, one line; after mining.authorize,
\* 3) set_difficulty and the notify of the job loaded from job.json.
ReadAuthorize(c) ==
    /\ conn_pc[c] = "authorize"
    /\ CanRead(c)
    /\ IF inbox[c] = <<>> \/ ~Head(inbox[c]).json
       THEN /\ CloseConn(c)
            /\ UNCHANGED outbox
       ELSE /\ inbox' = [inbox EXCEPT ![c] = Tail(@)]
            /\ IF Head(inbox[c]).method = "mining.configure"
               THEN /\ send_json(c, ConfigureResp)
                    /\ UNCHANGED conn_pc
               ELSE IF Head(inbox[c]).method = "mining.authorize"
               THEN /\ outbox' = [outbox EXCEPT ![c] =
                                     @ \o <<AuthorizeResp, SetDifficulty, Notify(job)>>]
                    /\ conn_pc' = [conn_pc EXCEPT ![c] = "submit"]
               ELSE UNCHANGED <<outbox, conn_pc>>
    /\ UNCHANGED <<job, solution, eof, sent, minerVars, launchVars, fnVars,
                   clientVars>>

\* 4) submit loop, one line.
ReadSubmit(c) ==
    /\ conn_pc[c] = "submit"
    /\ CanRead(c)
    /\ IF inbox[c] = <<>> \/ ~Head(inbox[c]).json
       THEN /\ CloseConn(c)
            /\ UNCHANGED <<outbox, solution>>
       ELSE /\ inbox' = [inbox EXCEPT ![c] = Tail(@)]
            /\ UNCHANGED conn_pc
            /\ IF Head(inbox[c]).method = "mining.submit"
               THEN /\ save_share(Head(inbox[c]).params)
                    /\ send_json(c, SubmitResp(TRUE, Head(inbox[c]).params))
               ELSE UNCHANGED <<outbox, solution>>
    /\ UNCHANGED <<job, eof, sent, minerVars, launchVars, fnVars,
                   clientVars>>

(***************************************************************************)
(* The launcher: launch() starts the workers, _aggregate reads their       *)
(* messages from the queue.                                                *)
(***************************************************************************)
\* Hexadecimal strings are sequences of digits 0..15.
HexDigitSample == {0, 15}

RECURSIVE DigitStrings(_)
DigitStrings(w) ==
    IF w = 0 THEN { <<>> }
    ELSE { Append(t, d) : t \in DigitStrings(w - 1), d \in HexDigitSample }

\* The bases given on the command line: 1..MaxWidth digits.
Bases == UNION { DigitStrings(w) : w \in 1..MaxWidth }

\* int(base, 16)
RECURSIVE HexToInt(_)
HexToInt(h) ==
    IF h = <<>> THEN 0
    ELSE 16 * HexToInt(SubSeq(h, 1, Len(h) - 1)) + h[Len(h)]

\* format(v, "x"): the digits of v, without padding
RECURSIVE IntToHex(_)
IntToHex(v) ==
    IF v < 16 THEN << v >>
    ELSE Append(IntToHex(v \div 16), v % 16)

\* format(v, "0{width}x"): zero-padded on the left up to width digits;
\* a longer number is written in full.
RECURSIVE ZeroPad(_, _)
ZeroPad(digits, width) ==
    IF Len(digits) >= width THEN digits
    ELSE ZeroPad(<<0>> \o digits, width)

\* _extranonce2(base, idx): f"{int(base, 16) + idx:0{len(base)}x}"
extranonce2(base, idx) == ZeroPad(IntToHex(HexToInt(base) + idx), Len(base))

Workers == 0..(nprocs - 1)

\* None, where a string, a number or a digit string is expected.
None == "None"
NoneInt == -1
NotPatched == <<>>

\* The third field of a queue message: a dict, a string or None.
Dict(r, a, t) == [type |-> "dict", rate |-> r, attempts |-> a, time |-> t, str |-> ""]
Str(x)        == [type |-> "str", rate |-> 0, attempts |-> 0, time |-> 0, str |-> x]
NoneVal       == [type |-> "None", rate |-> 0, attempts |-> 0, time |-> 0, str |-> ""]

\* What a worker's log handler may put on the queue.
WorkerMsgs(i) ==
    { [tag |-> "status", idx |-> i, val |-> Dict(5, 800, 0)],
      [tag |-> "found", idx |-> i, val |-> Dict(5, 900, 3)],
      [tag |-> "found", idx |-> i, val |-> NoneVal],
      [tag |-> "hash", idx |-> i, val |-> Str("00ab")],
      [tag |-> "submit", idx |-> i, val |-> NoneVal] }

\* A test that ends the aggregation as soon as a block is found.
IsSubmit_OrFound(tag) == tag \in {"submit", "found"}

\* elif tag == "submit"
IsSubmit(tag) == tag = "submit"

\* launch(): the workers are created and started, _aggregate is entered
\* (its local lists are created).
StartWorkers ==
    /\ queue' = <<>>
    /\ worker_ex2' = [i \in Workers |-> NotPatched]
    /\ rates' = [i \in Workers |-> 0]
    /\ agg_attempts' = [i \in Workers |-> 0]
    /\ block_hash' = None /\ winner_idx' = NoneInt /\ winner_attempts' = NoneInt
    /\ agg_pc' = "running"
    /\ ln_pc' = "running"

\* First pass of "while True" in launch().
LaunchStart ==
    /\ ln_pc = "init"
    /\ StartWorkers
    /\ UNCHANGED <<base_ex2, nprocs, reason, restarts, minerVars, poolVars, fnVars,
                   clientVars>>

\* _worker(idx, base_ex2, q): main.EXTRANONCE2 is patched before main.main().
WorkerStart(i) ==
    /\ ln_pc = "running"
    /\ worker_ex2[i] = NotPatched
    /\ worker_ex2' = [worker_ex2 EXCEPT ![i] = extranonce2(base_ex2, i)]
    /\ UNCHANGED <<ln_pc, base_ex2, nprocs, queue, rates, agg_attempts, block_hash,
                   winner_idx, winner_attempts, agg_pc, reason, restarts,
                   minerVars, poolVars, fnVars,
                   clientVars>>

\* _QueueHandler.emit: a running worker puts a message on the queue.
WorkerPut(i) ==
    /\ ln_pc = "running"
    /\ worker_ex2[i] # NotPatched
    /\ Len(queue) < MaxQueue
    /\ \E m \in WorkerMsgs(i) : queue' = Append(queue, m)
    /\ UNCHANGED <<ln_pc, base_ex2, nprocs, worker_ex2, rates, agg_attempts,
                   block_hash, winner_idx, winner_attempts, agg_pc, reason,
                   restarts, minerVars, poolVars, fnVars,
                   clientVars>>

\* _aggregate: q.get(timeout=0.5) returns a message.
AggregateGet ==
    /\ agg_pc = "running"
    /\ queue # <<>>
    /\ queue' = Tail(queue)
    /\ LET tag == Head(queue).tag
           idx == Head(queue).idx
           val == Head(queue).val
       IN  /\ IF tag = "status"
              THEN /\ rates' = [rates EXCEPT ![idx] = val.rate]
                   /\ agg_attempts' = [agg_attempts EXCEPT ![idx] = val.attempts]
              ELSE UNCHANGED <<rates, agg_attempts>>
           /\ IF tag = "found" /\ val.type = "dict"
              THEN /\ winner_idx' = idx
                   /\ winner_attempts' = val.attempts
              ELSE UNCHANGED <<winner_idx, winner_attempts>>
           /\ IF tag = "hash"
              THEN block_hash' = val.str
              ELSE UNCHANGED block_hash
           /\ IF IsSubmit(tag)
              THEN /\ reason' = "restart"
                   /\ agg_pc' = "returned"
              ELSE UNCHANGED <<reason, agg_pc>>
    /\ UNCHANGED <<ln_pc, base_ex2, nprocs, worker_ex2, restarts,
                   minerVars, poolVars, fnVars,
                   clientVars>>

\* _aggregate: q.get(timeout=0.5) times out on an empty queue; the exception
\* is swallowed and the loop goes on.
AggregateTimeout ==
    /\ agg_pc = "running"
    /\ queue = <<>>
    /\ UNCHANGED <<launchVars, minerVars, poolVars, fnVars,
                   clientVars>>

\* launch(): _aggregate has returned; the workers are terminated and joined,
\* what is left on the queue is never read.
LaunchJoin ==
    /\ ln_pc = "running"
    /\ agg_pc = "returned"
    /\ ln_pc' = "joined"
    /\ queue' = <<>>
    /\ UNCHANGED <<base_ex2, nprocs, worker_ex2, rates, agg_attempts,
                   block_hash, winner_idx, winner_attempts, agg_pc, reason,
                   restarts, minerVars, poolVars, fnVars,
                   clientVars>>

\* launch(): "if reason != 'restart': break", else the next pass of the loop.
LaunchRestart ==
    /\ ln_pc = "joined"
    /\ restarts < MaxRestarts
    /\ IF reason # "restart"
       THEN /\ ln_pc' = "stopped"
            /\ UNCHANGED <<worker_ex2, queue, rates, agg_attempts, block_hash,
                           winner_idx, winner_attempts, agg_pc, restarts>>
       ELSE /\ StartWorkers
            /\ restarts' = restarts + 1
    /\ UNCHANGED <<base_ex2, nprocs, reason, minerVars, poolVars, fnVars,
                   clientVars>>

(***************************************************************************)
(* stratumV1/stratum_client.py: the main thread and the receiver thread    *)
(* share sock and connected; connect_to_pool runs under the lock.  The     *)
(* pool is the environment: it answers the lines it receives, announces    *)
(* jobs on a subscribed connection and may close a connection.  A message  *)
(* is one whole line.                                                      *)
(***************************************************************************)
Sockets == 1..MaxSockets
Threads == {"main", "recv"}

\* sock = None
NoSock == 0

\* stop_flag is assigned once, at import.
stop_flag == FALSE

\* job.json before the first job is saved.
NoJobFile == [state |-> "absent", job_id |-> 0, extranonce1 |-> 0]

\* The first job_id the pool announces is 1; params that are no list of nine.
InvalidParams == 0

\* The pool's messages: the answer to mining.subscribe (result[1] is the
\* extranonce1), the answer to mining.authorize, and mining.notify.
SubscribeResult(c) == [id |-> 1, result |-> c, method |-> "none", params |-> 0]
AuthorizeResult(ok) == [id |-> 2, result |-> ok, method |-> "none", params |-> 0]
NotifyMessage(p) == [id |-> 0, result |-> 0, method |-> "mining.notify", params |-> p]

\* A call of connect_to_pool by thread t, which goes on at r when it returns.
CallConnect(t, r) ==
    /\ th_pc' = [th_pc EXCEPT ![t] = "lock"]
    /\ th_ret' = [th_ret EXCEPT ![t] = r]

\* connect_to_pool, "with lock": the thread waits for the lock.
ConnectLock(t) ==
    /\ th_pc[t] = "lock" /\ lock = "free"
    /\ lock' = t
    /\ th_pc' = [th_pc EXCEPT ![t] = "connect"]
    /\ UNCHANGED <<sock, connected, th_ret, rx_sock, client_extranonce1, pool_rx,
                   answered, pool_inbox, pool_closed, notified, job_file,
                   job_mtime, omVars, minerVars, poolVars, launchVars, fnVars>>

\* "while not connected and not stop_flag": socket.create_connection gives a
\* new connection.  (A refused connection is logged and tried again after
\* RECONNECT_DELAY, which changes nothing.)
ConnectCreate(t) ==
    /\ th_pc[t] = "connect" /\ lock = t
    /\ ~connected /\ ~stop_flag
    /\ sock < MaxSockets
    /\ sock' = sock + 1
    /\ th_pc' = [th_pc EXCEPT ![t] = "created"]
    /\ UNCHANGED <<connected, lock, th_ret, rx_sock, client_extranonce1, pool_rx,
                   answered, pool_inbox, pool_closed, notified, job_file,
                   job_mtime, omVars, minerVars, poolVars, launchVars, fnVars>>

\* "connected = True", and back to the test of the loop.
ConnectSet(t) ==
    /\ th_pc[t] = "created" /\ lock = t
    /\ connected' = TRUE
    /\ th_pc' = [th_pc EXCEPT ![t] = "connect"]
    /\ UNCHANGED <<sock, lock, th_ret, rx_sock, client_extranonce1, pool_rx,
                   answered, pool_inbox, pool_closed, notified, job_file,
                   job_mtime, omVars, minerVars, poolVars, launchVars, fnVars>>

\* The loop ends: the lock is released and connect_to_pool returns.
ConnectReturn(t) ==
    /\ th_pc[t] = "connect" /\ lock = t
    /\ connected \/ stop_flag
    /\ lock' = "free"
    /\ th_pc' = [th_pc EXCEPT ![t] = th_ret[t]]
    /\ UNCHANGED <<sock, connected, th_ret, rx_sock, client_extranonce1, pool_rx,
                   answered, pool_inbox, pool_closed, notified, job_file,
                   job_mtime, omVars, minerVars, poolVars, launchVars, fnVars>>

\* main(): connect_to_pool().
MainStart ==
    /\ th_pc["main"] = "start"
    /\ CallConnect("main", "spawn")
    /\ UNCHANGED <<sock, connected, lock, rx_sock, client_extranonce1, pool_rx,
                   answered, pool_inbox, pool_closed, notified, job_file,
                   job_mtime, omVars, minerVars, poolVars, launchVars, fnVars>>

\* main(): threading.Thread(target=receive_messages).start()
MainSpawn ==
    /\ th_pc["main"] = "spawn"
    /\ th_pc' = [th_pc EXCEPT !["main"] = "subscribe", !["recv"] = "top"]
    /\ UNCHANGED <<sock, connected, lock, th_ret, rx_sock, client_extranonce1,
                   pool_rx, answered, pool_inbox, pool_closed, notified, job_file,
                   job_mtime, omVars, minerVars, poolVars, launchVars, fnVars>>

\* What main() does after subscribe() and after authorize().
AfterSend(m) == IF m = "mining.subscribe" THEN "authorize" ELSE "poll"

\* The method main() is about to send,.
MainMethod ==
    IF th_pc["main"] \in {"subscribe", "subscribe_send"}
    THEN "mining.subscribe" ELSE "mining.authorize"

\* send_message, "if not connected: connect_to_pool()".
SendCheck ==
    /\ th_pc["main"] \in {"subscribe", "authorize"}
    /\ IF ~connected
       THEN CallConnect("main", IF th_pc["main"] = "subscribe"
                                THEN "subscribe_send" ELSE "authorize_send")
       ELSE /\ th_pc' = [th_pc EXCEPT !["main"] =
                            IF th_pc["main"] = "subscribe"
                            THEN "subscribe_send" ELSE "authorize_send"]
            /\ UNCHANGED th_ret
    /\ UNCHANGED <<sock, connected, lock, rx_sock, client_extranonce1, pool_rx,
                   answered, pool_inbox, pool_closed, notified, job_file,
                   job_mtime, omVars, minerVars, poolVars, launchVars, fnVars>>

\* send_message, sock.sendall returns: the pool receives the line, or the
\* line goes into a connection the pool has closed.
SendAll ==
    /\ th_pc["main"] \in {"subscribe_send", "authorize_send"}
    /\ pool_rx' = IF sock \in pool_closed THEN pool_rx
               ELSE [pool_rx EXCEPT ![sock] = Append(@, MainMethod)]
    /\ th_pc' = [th_pc EXCEPT !["main"] = AfterSend(MainMethod)]
    /\ UNCHANGED <<sock, connected, lock, th_ret, rx_sock, client_extranonce1,
                   answered, pool_inbox, pool_closed, notified, job_file,
                   job_mtime, omVars, minerVars, poolVars, launchVars, fnVars>>

\* send_message, sock.sendall raises on a connection the pool has closed:
\* "connected = False; connect_to_pool()"; the message is not sent again.
SendFails ==
    /\ th_pc["main"] \in {"subscribe_send", "authorize_send"}
    /\ sock \in pool_closed
    /\ connected' = FALSE
    /\ CallConnect("main", AfterSend(MainMethod))
    /\ UNCHANGED <<sock, lock, rx_sock, client_extranonce1, pool_rx,
                   answered, pool_inbox, pool_closed, notified, job_file,
                   job_mtime, omVars, minerVars, poolVars, launchVars, fnVars>>

\* main(), the loop: after time.sleep(5), "if not connected" holds.  (With
\* connected set the pass changes nothing.)
MainPoll ==
    /\ th_pc["main"] = "poll"
    /\ ~connected
    /\ CallConnect("main", "subscribe")
    /\ UNCHANGED <<sock, connected, lock, rx_sock, client_extranonce1, pool_rx,
                   answered, pool_inbox, pool_closed, notified, job_file,
                   job_mtime, omVars, minerVars, poolVars, launchVars, fnVars>>

\* receive_messages, "if not connected: connect_to_pool()".
RecvTop ==
    /\ th_pc["recv"] = "top" /\ ~stop_flag
    /\ IF ~connected
       THEN CallConnect("recv", "enter")
       ELSE th_pc' = [th_pc EXCEPT !["recv"] = "enter"] /\ UNCHANGED th_ret
    /\ UNCHANGED <<sock, connected, lock, rx_sock, client_extranonce1, pool_rx,
                   answered, pool_inbox, pool_closed, notified, job_file,
                   job_mtime, omVars, minerVars, poolVars, launchVars, fnVars>>

\* receive_messages, "sock.recv(4096)" is called on the sock of that moment.
RecvEnter ==
    /\ th_pc["recv"] = "enter"
    /\ rx_sock' = sock
    /\ th_pc' = [th_pc EXCEPT !["recv"] = "recv"]
    /\ UNCHANGED <<sock, connected, lock, th_ret, client_extranonce1, pool_rx,
                   answered, pool_inbox, pool_closed, notified, job_file,
                   job_mtime, omVars, minerVars, poolVars, launchVars, fnVars>>

\* save_job_data up to open("job.json", "w"): the file is truncated.
TruncatedFile(p, e1) == [state |-> "partial", job_id |-> p, extranonce1 |-> e1]

\* recv returns a line and handle_message processes it.
RecvData ==
    /\ th_pc["recv"] = "recv"
    /\ pool_inbox[rx_sock] # <<>>
    /\ LET message == Head(pool_inbox[rx_sock])
           saves == message.method = "mining.notify"
                    /\ message.params # InvalidParams
       IN /\ pool_inbox' = [pool_inbox EXCEPT ![rx_sock] = Tail(@)]
          /\ client_extranonce1' = IF message.id = 1 THEN message.result
                                   ELSE client_extranonce1
          /\ connected' = IF message.id = 2 THEN message.result ELSE connected
          /\ job_file' = IF saves
                         THEN TruncatedFile(message.params, client_extranonce1)
                         ELSE job_file
          /\ job_mtime' = IF saves THEN job_mtime + 1 ELSE job_mtime
          /\ th_pc' = [th_pc EXCEPT !["recv"] = IF saves THEN "saving" ELSE "top"]
    /\ UNCHANGED <<sock, lock, th_ret, rx_sock, pool_rx, answered, pool_closed,
                   notified, omVars, minerVars, poolVars, launchVars, fnVars>>

\* save_job_data, json.dump and the end of "with open": the file is whole;
\* its modification time is that of the last write.
SaveJobDone ==
    /\ th_pc["recv"] = "saving"
    /\ job_file' = [job_file EXCEPT !.state = "whole"]
    /\ \E later \in BOOLEAN :
           job_mtime' = IF later THEN job_mtime + 1 ELSE job_mtime
    /\ th_pc' = [th_pc EXCEPT !["recv"] = "top"]
    /\ UNCHANGED <<sock, connected, lock, th_ret, rx_sock, client_extranonce1,
                   pool_rx, answered, pool_inbox, pool_closed, notified,
                   omVars, minerVars, poolVars, launchVars, fnVars>>

\* recv returns b"": "connected = False; connect_to_pool(); continue".
RecvClosed ==
    /\ th_pc["recv"] = "recv"
    /\ pool_inbox[rx_sock] = <<>> /\ rx_sock \in pool_closed
    /\ connected' = FALSE
    /\ CallConnect("recv", "top")
    /\ UNCHANGED <<sock, lock, rx_sock, client_extranonce1, pool_rx,
                   answered, pool_inbox, pool_closed, notified, job_file,
                   job_mtime, omVars, minerVars, poolVars, launchVars, fnVars>>

\* recv raises socket.timeout after 60 s without data: the except branch,
\* "connected = False; connect_to_pool()".
RecvTimeout ==
    /\ th_pc["recv"] = "recv"
    /\ pool_inbox[rx_sock] = <<>> /\ rx_sock \notin pool_closed
    /\ connected' = FALSE
    /\ CallConnect("recv", "top")
    /\ UNCHANGED <<sock, lock, rx_sock, client_extranonce1, pool_rx,
                   answered, pool_inbox, pool_closed, notified, job_file,
                   job_mtime, omVars, minerVars, poolVars, launchVars, fnVars>>

\* The connections the client has opened and the pool has not closed.
Open(c) == c <= sock /\ c \notin pool_closed

\* The pool answers the next line of connection c.
PoolAnswer(c) ==
    /\ Open(c) /\ answered[c] < Len(pool_rx[c])
    /\ \E ok \in BOOLEAN :
           pool_inbox' = [pool_inbox EXCEPT ![c] = Append(@,
               IF pool_rx[c][answered[c] + 1] = "mining.subscribe"
               THEN SubscribeResult(c) ELSE AuthorizeResult(ok))]
    /\ answered' = [answered EXCEPT ![c] = @ + 1]
    /\ UNCHANGED <<sock, connected, lock, th_pc, th_ret, rx_sock,
                   client_extranonce1, pool_rx, pool_closed, notified, job_file,
                   job_mtime, omVars, minerVars, poolVars, launchVars, fnVars>>

\* The pool announces a job on a connection that has subscribed.
PoolNotify(c) ==
    /\ Open(c) /\ notified < MaxNotifies
    /\ \E i \in 1..answered[c] : pool_rx[c][i] = "mining.subscribe"
    /\ notified' = notified + 1
    /\ \E p \in {notified + 1, InvalidParams} :
           pool_inbox' = [pool_inbox EXCEPT ![c] = Append(@, NotifyMessage(p))]
    /\ UNCHANGED <<sock, connected, lock, th_pc, th_ret, rx_sock,
                   client_extranonce1, pool_rx, answered, pool_closed, job_file,
                   job_mtime, omVars, minerVars, poolVars, launchVars, fnVars>>

\* The pool closes connection c.
PoolClose(c) ==
    /\ Open(c)
    /\ pool_closed' = pool_closed \cup {c}
    /\ UNCHANGED <<sock, connected, lock, th_pc, th_ret, rx_sock,
                   client_extranonce1, pool_rx, answered, pool_inbox, notified,
                   job_file, job_mtime, omVars, minerVars, poolVars, launchVars,
                   fnVars>>

(***************************************************************************)
(* StratumV1/old/miner.py: mine() reads job.json, which the client's       *)
(* save_job_data overwrites.                                               *)
(***************************************************************************)
\* read_job(): the parsed file, or None when json.load fails.
read_job == IF job_file.state = "whole" THEN job_file ELSE NoJobFile

\* "job = read_job(); if job: mine()"
OmStart ==
    /\ om_pc = "off"
    /\ om_pc' = IF read_job # NoJobFile THEN "check" ELSE "exited"
    /\ UNCHANGED <<last_job_mtime, om_job, om_batches, extranonce2_counter,
                   scVars, minerVars, poolVars, launchVars, fnVars>>

\* mine(), the outer loop: "if job_mtime > last_job_mtime" holds; the job
\* is read and, unless that fails, the search starts at nonce 0.  (With an
\* unchanged file the pass sleeps and changes nothing.)
OmCheck ==
    /\ om_pc = "check"
    /\ job_mtime > last_job_mtime
    /\ last_job_mtime' = job_mtime
    /\ IF read_job # NoJobFile
       THEN /\ om_job' = read_job
            /\ extranonce2_counter' = 0
            /\ om_batches' = 0
            /\ om_pc' = "search"
       ELSE UNCHANGED <<om_job, extranonce2_counter, om_batches, om_pc>>
    /\ UNCHANGED <<scVars, minerVars, poolVars, launchVars, fnVars>>

\* mine(), the inner "while True": one batch of BATCH_SIZE nonces on om_job;
\* a hash below the target sends a share and counts extranonce2_counter up.
\* The loop has no break.
OmBatch ==
    /\ om_pc = "search"
    /\ om_batches < MaxOmBatches
    /\ om_batches' = om_batches + 1
    /\ \E share \in BOOLEAN :
           extranonce2_counter' =
               IF share /\ extranonce2_counter < MaxShares
               THEN extranonce2_counter + 1 ELSE extranonce2_counter
    /\ UNCHANGED <<om_pc, last_job_mtime, om_job,
                   scVars, minerVars, poolVars, launchVars, fnVars>>

\* mine(), the inner loop after 2^32 nonces: struct.pack("<I", nonce) in
\* build_block_header raises struct.error, which nothing catches, and the
\* process ends.
OmOverflow ==
    /\ om_pc = "search"
    /\ om_batches = MaxOmBatches
    /\ om_pc' = "crashed"
    /\ UNCHANGED <<last_job_mtime, om_job, om_batches, extranonce2_counter,
                   scVars, minerVars, poolVars, launchVars, fnVars>>

(***************************************************************************)
(* The state of each part before it runs.                                  *)
(***************************************************************************)
\* The launcher before launch(), but for its two arguments.
LauncherFresh ==
    /\ ln_pc = "init"
    /\ worker_ex2 = <<>> /\ queue = <<>> /\ rates = <<>> /\ agg_attempts = <<>>
    /\ block_hash = None /\ winner_idx = NoneInt /\ winner_attempts = NoneInt
    /\ agg_pc = "idle" /\ reason = None /\ restarts = 0

\* The defaults: one process, main.EXTRANONCE2 = "12341234".
LauncherIdle ==
    /\ LauncherFresh
    /\ base_ex2 = <<1, 2, 3, 4, 1, 2, 3, 4>> /\ nprocs = 1

\* No library function is being called.
FnIdle == fn_name = "none" /\ fn_args = <<>> /\ fn_done = FALSE /\ fn_ret = <<>>

\* The client and the miner before they are started.
ClientIdle ==
    /\ sock = NoSock /\ connected = FALSE /\ lock = "free"
    /\ th_pc = [t \in Threads |-> IF t = "main" THEN "start" ELSE "off"]
    /\ th_ret = [t \in Threads |-> "none"]
    /\ rx_sock = NoSock /\ client_extranonce1 = 0
    /\ pool_rx = [c \in Sockets |-> <<>>]
    /\ answered = [c \in Sockets |-> 0]
    /\ pool_inbox = [c \in Sockets |-> <<>>]
    /\ pool_closed = {} /\ notified = 0
    /\ job_file = NoJobFile /\ job_mtime = 0
    /\ om_pc = "off" /\ last_job_mtime = 0 /\ om_job = NoJobFile
    /\ om_batches = 0 /\ extranonce2_counter = 0

PoolIdle ==
    /\ job = JobOf(1) /\ solution = NoShare
    /\ conn_pc = [c \in Conns |-> "absent"]
    /\ inbox = [c \in Conns |-> <<>>]
    /\ eof = [c \in Conns |-> FALSE]
    /\ sent = 0
    /\ outbox = [c \in Conns |-> <<>>]

MinerIdle ==
    /\ now = 0 /\ bestHash = 1
    /\ cy_pc = "startup" /\ cycle_error = NoError
    /\ template = NoTemplate /\ modified_target = NoTarget
    /\ submitted = NotSubmitted
    /\ stop_event = FALSE /\ wd_pc = "off"
    /\ last_hash = NoneHash /\ new_hash = NoneHash /\ wd_wake = 0
    /\ mb_pc = "idle" /\ mid = sha_new /\ header = <<>>
    /\ nonce = U32(0, 0) /\ attempts = 0 /\ last_tsu = 0
    /\ batches = 0 /\ draws = 0 /\ mined = NotMined

MinerInit ==
    /\ MinerIdle
    /\ nonce_mode \in NonceModes
    /\ PoolIdle
    /\ LauncherIdle
    /\ FnIdle
    /\ ClientIdle

MinerNext ==
    \/ Tick
    \/ NodeNewBlock
    \/ WdInit
    \/ WdPoll
    \/ TestRpcConnection
    \/ CycleFetchFail
    \/ CycleRetry
    \/ CycleRaise
    \/ CycleStart
    \/ MineLoopTop
    \/ MineBatch
    \/ CycleAfterMine
    \/ CycleSerialize
    \/ CycleSubmit
    \/ CyclePause

MinerSpec == MinerInit /\ [][MinerNext]_vars

PoolInit ==
    /\ MinerIdle /\ nonce_mode = "mixed" /\ PoolIdle /\ LauncherIdle /\ FnIdle
    /\ ClientIdle

PoolNext ==
    \/ JobReplace
    \/ \E c \in Conns :
         \/ Accept(c)
         \/ ClientSend(c)
         \/ ClientClose(c)
         \/ ReadSubscribe(c)
         \/ ReadAuthorize(c)
         \/ ReadSubmit(c)

PoolSpec == PoolInit /\ [][PoolNext]_vars

\* Every connection's thread gets to run: a read that can return does.
PoolFairness ==
    \A c \in Conns :
        /\ WF_vars(ReadSubscribe(c))
        /\ WF_vars(ReadAuthorize(c))
        /\ WF_vars(ReadSubmit(c))

PoolLiveSpec == PoolSpec /\ PoolFairness

LauncherInit ==
    /\ MinerIdle /\ nonce_mode = "mixed" /\ PoolIdle /\ FnIdle /\ ClientIdle
    /\ LauncherFresh
    /\ base_ex2 \in Bases /\ nprocs \in 1..MaxProcs

LauncherNext ==
    \/ LaunchStart
    \/ \E i \in Workers : WorkerStart(i)
    \/ \E i \in Workers : WorkerPut(i)
    \/ AggregateGet
    \/ AggregateTimeout
    \/ LaunchJoin
    \/ LaunchRestart

LauncherSpec == LauncherInit /\ [][LauncherNext]_vars

ClientInit ==
    /\ MinerIdle /\ nonce_mode = "mixed" /\ PoolIdle /\ LauncherIdle /\ FnIdle
    /\ ClientIdle

ClientNext ==
    \/ \E t \in Threads :
         \/ ConnectLock(t)
         \/ ConnectCreate(t)
         \/ ConnectSet(t)
         \/ ConnectReturn(t)
    \/ MainStart
    \/ MainSpawn
    \/ SendCheck
    \/ SendAll
    \/ SendFails
    \/ MainPoll
    \/ RecvTop
    \/ RecvEnter
    \/ RecvData
    \/ RecvClosed
    \/ RecvTimeout
    \/ \E c \in Sockets :
         \/ PoolAnswer(c)
         \/ PoolClose(c)

\* The client's connection to a pool that answers and may close it.
ClientSpec == ClientInit /\ [][ClientNext]_vars

\* Both threads of the client get to run, and the pool answers what it has
\* received.  When the pool closes a connection or
\* announces a job, when it stays silent for 60 s, and whether sendall
\* raises on a closed connection are not up to the scheduler.
ClientFairness ==
    /\ \A t \in Threads :
           /\ WF_vars(ConnectLock(t))
           /\ WF_vars(ConnectCreate(t))
           /\ WF_vars(ConnectSet(t))
           /\ WF_vars(ConnectReturn(t))
    /\ WF_vars(MainStart) /\ WF_vars(MainSpawn)
    /\ WF_vars(SendCheck) /\ WF_vars(SendAll) /\ WF_vars(MainPoll)
    /\ WF_vars(RecvTop) /\ WF_vars(RecvEnter) /\ WF_vars(RecvData)
    /\ WF_vars(RecvClosed)
    /\ \A c \in Sockets : WF_vars(PoolAnswer(c))

ClientLiveSpec == ClientSpec /\ ClientFairness

\* The client after the pool has answered mining.subscribe and accepted
\* mining.authorize on the first connection: main() is in its loop and the
\* receiver is about to call recv.
ClientReady ==
    /\ sock = 1 /\ connected = TRUE /\ lock = "free"
    /\ th_pc = [t \in Threads |-> IF t = "main" THEN "poll" ELSE "top"]
    /\ th_ret = [t \in Threads |-> IF t = "main" THEN "spawn" ELSE "none"]
    /\ rx_sock = 1 /\ client_extranonce1 = 1
    /\ pool_rx = [c \in Sockets |-> IF c = 1
                      THEN <<"mining.subscribe", "mining.authorize">> ELSE <<>>]
    /\ answered = [c \in Sockets |-> IF c = 1 THEN 2 ELSE 0]
    /\ pool_inbox = [c \in Sockets |-> <<>>]
    /\ pool_closed = {} /\ notified = 0
    /\ job_file = NoJobFile /\ job_mtime = 0

\* old/miner.py before start.py launches it.
OmIdle ==
    /\ om_pc = "off" /\ last_job_mtime = 0 /\ om_job = NoJobFile
    /\ om_batches = 0 /\ extranonce2_counter = 0

JobInit ==
    /\ MinerIdle /\ nonce_mode = "mixed" /\ PoolIdle /\ LauncherIdle /\ FnIdle
    /\ ClientReady /\ OmIdle

JobNext ==
    \/ \E c \in Sockets : PoolNotify(c)
    \/ RecvTop
    \/ RecvEnter
    \/ RecvData
    \/ SaveJobDone
    \/ OmStart
    \/ OmCheck
    \/ OmBatch
    \/ OmOverflow

\* The jobs of a pool that keeps the connection: the receiver saves them
\* and the miner reads them.
JobSpec == JobInit /\ [][JobNext]_vars

\* The receiver thread and the miner's process get to run.
JobFairness ==
    /\ WF_vars(RecvTop) /\ WF_vars(RecvEnter) /\ WF_vars(RecvData)
    /\ WF_vars(SaveJobDone)
    /\ WF_vars(OmStart) /\ WF_vars(OmCheck) /\ WF_vars(OmBatch)
    /\ WF_vars(OmOverflow)

JobLiveSpec == JobSpec /\ JobFairness

(***************************************************************************)
(* Merkle trees: MiningUtils/MerkleBranch/merkle_branch.py,                *)
(* StratumV1/merkle.py, StratumV1/test/utils.py and block_builder.py.      *)
(* A hex string is the sequence of its digits, two for each byte.          *)
(***************************************************************************)
\* An odd level filled up with a zero hash.
Padded_ZeroFill(level) ==
    IF Len(level) % 2 = 1
    THEN Append(level, AsSeq([k \in 1..32 |-> 0], 32)) ELSE level

\* "if len(level) % 2 == 1: level.append(level[-1])"
Padded(level) ==
    IF Len(level) % 2 = 1 THEN Append(level, level[Len(level)]) ELSE level

\* [double_sha256(level[i] + level[i+1]) for i in range(0, len(level), 2)]
Parents(level) ==
    AsSeq([k \in 1..(Len(level) \div 2) |->
              double_sha256(level[2 * k - 1] \o level[2 * k])],
          Len(level) \div 2)

\* [bytes.fromhex(tx)[::-1] for tx in txids]
LeafBytes(txids) ==
    AsSeq([k \in 1..Len(txids) |-> Reversed(fromhex(txids[k]))], Len(txids))

\* merkle_branch: the while-loop.  Indices count from 0 as in the code.
RECURSIVE branch_loop(_, _, _)
branch_loop(current_level, current_index, branch) ==
    IF Len(current_level) <= 1 THEN branch
    ELSE LET level   == Padded(current_level)
             sibling == IF current_index % 2 = 0
                        THEN level[current_index + 2]
                        ELSE level[current_index]
         IN  branch_loop(Parents(level), current_index \div 2,
                         IF current_index < Len(level)
                         THEN Append(branch, hex(Reversed(sibling)))
                         ELSE branch)

\* merkle_branch(txids, index)
merkle_branch(txids, index) == branch_loop(LeafBytes(txids), index, <<>>)

\* get_coinbase_merkle_branch(txids)
get_coinbase_merkle_branch(txids) == merkle_branch(txids, 0)

\* compute_merkle_root and calculate_merkle_root: the while-loop
RECURSIVE root_loop(_)
root_loop(current_level) ==
    IF Len(current_level) <= 1 THEN current_level
    ELSE root_loop(Parents(Padded(current_level)))

\* compute_merkle_root(txids)
compute_merkle_root(txids) == hex(Reversed(root_loop(LeafBytes(txids))[1]))

\* verify_merkle_branch: the for-loop, the operand order taken from the
\* lowest bit of the first byte of the running hash.
RECURSIVE verify_fold(_, _)
verify_fold(current, branch) ==
    IF branch = <<>> THEN current
    ELSE LET h_bytes == Reversed(fromhex(Head(branch)))
         IN  verify_fold(IF Len(current) > 0 /\ current[1] % 2 = 1
                         THEN double_sha256(h_bytes \o current)
                         ELSE double_sha256(current \o h_bytes),
                         Tail(branch))

\* verify_merkle_branch(coinbase_txid, merkle_branch, expected_merkle_root)
verify_merkle_branch(coinbase_txid, branch, expected_merkle_root) ==
    hex(Reversed(verify_fold(Reversed(fromhex(coinbase_txid)), branch)))
        = expected_merkle_root

\* StratumV1/merkle.py: hash256(data), a hex string
hash256(data) == hex(double_sha256(data))

\* [hash256(fromhex(level[i]) + fromhex(level[i+1])) for i in range(0, n, 2)]
HexParents(level) ==
    AsSeq([k \in 1..(Len(level) \div 2) |->
              hash256(fromhex(level[2 * k - 1]) \o fromhex(level[2 * k]))],
          Len(level) \div 2)

\* build_merkle_tree: the while-loop.  The level that gets its last element
\* appended is the list already stored in the tree.
RECURSIVE tree_loop(_)
tree_loop(tree) ==
    LET current_level == tree[Len(tree)]
    IN  IF Len(current_level) <= 1 THEN tree
        ELSE tree_loop(SubSeq(tree, 1, Len(tree) - 1)
                           \o << Padded(current_level),
                                 HexParents(Padded(current_level)) >>)

\* build_merkle_tree(leaves)
build_merkle_tree(leaves) == tree_loop(<< leaves >>)

\* An extraction that always takes the element to the right.
RECURSIVE extract_merkle_branch_RightOnly(_, _)
extract_merkle_branch_RightOnly(tree, index) ==
    IF Len(tree) <= 1 THEN <<>>
    ELSE << Head(tree)[IF index + 2 <= Len(Head(tree))
                       THEN index + 2 ELSE index] >>
             \o extract_merkle_branch_RightOnly(Tail(tree), index \div 2)

\* extract_merkle_branch(tree, index)
RECURSIVE extract_merkle_branch(_, _)
extract_merkle_branch(tree, index) ==
    IF Len(tree) <= 1 THEN <<>>
    ELSE LET sibling_index == IF index % 2 = 0 THEN index + 1 ELSE index - 1
         IN  << Head(tree)[sibling_index + 1] >>
                 \o extract_merkle_branch(Tail(tree), index \div 2)

\* merkle.py main(): the root rebuilt from a leaf and its branch.
RECURSIVE FoldHex(_, _, _)
FoldHex(computed, branch, index) ==
    IF branch = <<>> THEN computed
    ELSE FoldHex(hash256(IF index % 2 = 0
                         THEN fromhex(computed) \o fromhex(Head(branch))
                         ELSE fromhex(Head(branch)) \o fromhex(computed)),
                 Tail(branch), index \div 2)

\* calculate_merkle_branch: the while-loop; index stays 0
RECURSIVE notify_branch_loop(_, _, _)
notify_branch_loop(layer, index, branch) ==
    IF Len(layer) <= 1 THEN branch
    ELSE LET padded        == Padded(layer)
             sibling_index == IF index % 2 = 0 THEN index + 1 ELSE index - 1
         IN  notify_branch_loop(Parents(padded), index \div 2,
                                Append(branch, padded[sibling_index + 1]))

\* calculate_merkle_branch(template): the transaction hashes are read with
\* bytes.fromhex(tx["hash"][::-1]), the hex string reversed digit by digit,
\* behind a placeholder of 32 zero bytes for the coinbase.
calculate_merkle_branch(tpl) ==
    LET txs       == tpl.transactions
        tx_hashes == AsSeq([k \in 1..Len(txs) |-> fromhex(Reversed(txs[k].hash))],
                           Len(txs))
        layer     == << AsSeq([k \in 1..32 |-> 0], 32) >> \o tx_hashes
        branch    == notify_branch_loop(layer, 0, <<>>)
    IN  AsSeq([k \in 1..Len(branch) |-> hex(branch[k])], Len(branch))

\* StratumV1/test/block_builder.py: calculate_merkle_root(coinbase_txid,
\* transactions)
calculate_merkle_root(coinbase_txid, transactions) ==
    LET tx_hashes ==
            << Reversed(fromhex(coinbase_txid)) >>
                \o AsSeq([k \in 1..Len(transactions) |->
                             Reversed(fromhex(transactions[k].hash))],
                         Len(transactions))
    IN  hex(Reversed(root_loop(tx_hashes)[1]))

(***************************************************************************)
(* StratumV1/test/utils.py: split_coinbase.  A string is the sequence of   *)
(* its characters.                                                         *)
(***************************************************************************)
Min(a, b) == IF a <= b THEN a ELSE b

\* s[a:b] for 0 <= a
Slice(s, a, b) == SubSeq(s, a + 1, Min(b, Len(s)))

\* s.lower()
LowerChar(c) ==
    CASE c = "A" -> "a" [] c = "B" -> "b" [] c = "C" -> "c"
      [] c = "D" -> "d" [] c = "E" -> "e" [] c = "F" -> "f" [] OTHER -> c
lower(s) == AsSeq([k \in 1..Len(s) |-> LowerChar(s[k])], Len(s))

\* The positions, from 0, where sub occurs in s.
Occurrences(s, sub) ==
    { i \in 0..(Len(s) - Len(sub)) : Slice(s, i, i + Len(sub)) = sub }

\* s.find(sub): the lowest position, -1 when there is none
find(s, sub) ==
    IF Occurrences(s, sub) = {} THEN -1
    ELSE CHOOSE i \in Occurrences(s, sub) : \A j \in Occurrences(s, sub) : i <= j

\* What split_coinbase gives back: a tuple, or the ValueError it raises.
SplitResult(e, c1, x1, x2, c2) ==
    [error |-> e, coinb1 |-> c1, extranonce1 |-> x1, extranonce2 |-> x2,
     coinb2 |-> c2]

\* split_coinbase(coinbase_hex, ex1, ex2)
split_coinbase(coinbase_hex, ex1_in, ex2_in) ==
    LET h   == lower(coinbase_hex)
        ex1 == lower(ex1_in)
        ex2 == lower(ex2_in)
        idx_ex1 == find(h, ex1)
        idx_ex2 == idx_ex1 + Len(ex1)
    IN  IF idx_ex1 = -1
        THEN SplitResult("extranonce1 non trovato nella coinbase",
                         <<>>, <<>>, <<>>, <<>>)
        ELSE IF Slice(h, idx_ex2, idx_ex2 + Len(ex2)) # ex2
        THEN SplitResult("extranonce2 non segue immediatamente extranonce1",
                         <<>>, <<>>, <<>>, <<>>)
        ELSE SplitResult(NoError,
                         Slice(h, 0, idx_ex1),
                         Slice(h, idx_ex1, idx_ex1 + Len(ex1)),
                         Slice(h, idx_ex2, idx_ex2 + Len(ex2)),
                         Slice(h, idx_ex2 + Len(ex2), Len(h)))

(***************************************************************************)
(* The coinbase: tx_encode_coinbase_height of GetBlockTemplate and of      *)
(* RPC-Based, build_coinbase_transaction of RPC-Based.  A hex string the   *)
(* code builds from whole bytes is the sequence of those bytes.            *)
(***************************************************************************)
\* ValueError raised by a builder
ValueError == "ValueError"

\* What a builder gives back: the bytes, or the error it raised.
Built(err, bytes) == [error |-> err, bytes |-> bytes]

\* "while v: result.append(v & 0xff); v >>= 8", and
\* v.to_bytes((v.bit_length() + 7) // 8, 'little')
RECURSIVE MinimalLe(_)
MinimalLe(v) ==
    IF v = 0 THEN <<>> ELSE <<v % 256>> \o MinimalLe(v \div 256)

\* The encoding without the byte that keeps the number positive.
tx_encode_coinbase_height_NoSignByte(height) ==
    IF height < 0 THEN Built(ValueError, <<>>)
    ELSE IF height = 0 THEN Built(NoError, <<0>>)
    ELSE LET result == MinimalLe(height)
         IN  Built(NoError, <<Len(result)>> \o result)

\* GetBlockTemplate/block_builder.py: tx_encode_coinbase_height(height)
tx_encode_coinbase_height(height) ==
    IF height < 0 THEN Built(ValueError, <<>>)
    ELSE IF height = 0 THEN Built(NoError, <<0>>)
    ELSE LET result == MinimalLe(height)
             signed == IF result[Len(result)] >= 128
                       THEN Append(result, 0) ELSE result
         IN  Built(NoError, <<Len(signed)>> \o signed)

\* RPC-Based/block_builder.py: tx_encode_coinbase_height(height)
rpc_tx_encode_coinbase_height(height) ==
    IF height < 1 THEN Built(ValueError, <<>>)
    ELSE LET height_bytes == MinimalLe(height)
         IN  Built(NoError, <<Len(height_bytes)>> \o height_bytes)

\* "00" * n as bytes
Zeros(n) == AsSeq([k \in 1..n |-> 0], n)

\* "6a24aa21a9ed": OP_RETURN, a push of 36 bytes, the commitment's marker
CommitmentHeader == <<106, 36, 170, 33, 169, 237>>

\* "if witness_commitment_hex and len(witness_commitment_hex) == 64": the
\* second output of the coinbase, empty when the test fails.
CommitmentOutput(witness_commitment_hex) ==
    IF witness_commitment_hex # <<>> /\ Len(witness_commitment_hex) = 64
    THEN LET witness_commitment_script ==
                 CommitmentHeader \o fromhex(witness_commitment_hex)
         IN  Zeros(8) \o encode_varint(SmallInt(Len(witness_commitment_script)))
                 \o witness_commitment_script
    ELSE <<>>

\* RPC-Based/block_builder.py: build_coinbase_transaction(template,
\* miner_script_pubkey, coinbase_message); urandom is os.urandom(4), the
\* message and the script are byte sequences, an absent message is empty.
rpc_build_coinbase_transaction(tpl, miner_script_pubkey, coinbase_message, urandom) ==
    LET encoded == rpc_tx_encode_coinbase_height(tpl.height)
        script_sig ==
            encoded.bytes
                \o (IF coinbase_message # <<>>
                    THEN <<106, Len(coinbase_message)>> \o coinbase_message
                    ELSE <<>>)
                \o urandom
        outputs == SmallInt(tpl.coinbasevalue)
                       \o encode_varint(SmallInt(Len(miner_script_pubkey)))
                       \o miner_script_pubkey
        second == CommitmentOutput(tpl.default_witness_commitment)
        output_count == IF second = <<>> THEN 1 ELSE 2
    IN  IF encoded.error # NoError THEN encoded
        ELSE IF Len(script_sig) > 100 THEN Built(ValueError, <<>>)
        ELSE Built(NoError,
                   <<1, 0, 0, 0, 1>> \o Zeros(32) \o <<255, 255, 255, 255>>
                       \o encode_varint(SmallInt(Len(script_sig))) \o script_sig
                       \o <<255, 255, 255, 255>>
                       \o encode_varint(SmallInt(output_count))
                       \o outputs \o second \o <<0, 0, 0, 0>>)

(***************************************************************************)
(* StratumV1/test: the j the server writes (main.py, utils.py), the      *)
(* share test_miner.mine finds and the header test_sender.main rebuilds.   *)
(* Hex strings of the j are kept as the bytes they stand for; the        *)
(* numbers of the solution are digit strings.                              *)
(***************************************************************************)
\* swap_endian(hex_str)
swap_endian(b) == Reversed(b)

\* format(v, "08x") as the bytes bytes.fromhex reads from it
Hex8Bytes(v) == fromhex(ZeroPad(IntToHex(v), 8))

\* create_mining_notify_params(template, coinb1, coinb2, merkle_branch)
create_mining_notify_params(tpl, coinb1, coinb2, branch) ==
    [prevhash |-> swap_endian(tpl.previousblockhash),
     coinb1 |-> coinb1, coinb2 |-> coinb2,
     merkle_branch |-> AsSeq([k \in 1..Len(branch) |-> fromhex(branch[k])],
                             Len(branch)),
     version |-> Hex8Bytes(tpl.version), nbits |-> tpl.bits,
     ntime |-> ZeroPad(IntToHex(tpl.curtime), 8)]

\* mine returning None
NoSolution == [found |-> FALSE, header |-> <<>>, extranonce2 |-> <<>>,
               ntime |-> <<>>, nonce |-> <<>>]

\* test_miner.mine, steps 1 and 2: coinbase_hash_le and merkle_root_le
miner_merkle_root(j, coinbase) ==
    calc_merkle_root(Reversed(double_sha256(coinbase)), j.merkle_branch)

\* test_miner.mine: "for nonce in range(max_nonce)", from nonce on
RECURSIVE mine_loop(_, _, _, _, _)
mine_loop(j, ex2, merkle_root_le, n, max_nonce) ==
    IF n >= max_nonce THEN NoSolution
    ELSE LET ntime   == HexToInt(j.ntime) + (n \div 100000)
             hdr     == header_bytes(j.version, j.prevhash, merkle_root_le,
                                     ntime, j.nbits, FromInt(n))
             hash_be == Reversed(double_sha256(hdr))
         IN  IF ~BytesLess(decode_nbits(j.nbits), hash_be)
             THEN [found |-> TRUE, header |-> hdr, extranonce2 |-> ex2,
                   ntime |-> ZeroPad(IntToHex(ntime), 8),
                   nonce |-> ZeroPad(IntToHex(n), 8)]
             ELSE mine_loop(j, ex2, merkle_root_le, n + 1, max_nonce)

\* test_miner.mine(j, extranonce1, max_nonce), with the extranonce2 that
\* generate_extranonce2 returns
mine(j, extranonce1, ex2, max_nonce) ==
    LET coinbase == j.coinb1 \o extranonce1 \o ex2 \o j.coinb2
    IN  mine_loop(j, ex2, miner_merkle_root(j, coinbase), 0, max_nonce)

\* be_hex_to_le_bytes(hex_str)
be_hex_to_le_bytes(hex_str) == Reversed(fromhex(hex_str))

\* test_sender.build_block_header(version_be_hex, prev_hash_le_hex,
\* merkle_root_le, ntime_be_hex, nbits_be_hex, nonce_be_hex)
sender_build_block_header(version_be, prev_hash_le, merkle_root_le, ntime_be_hex, nbits_be, nonce_be_hex) ==
    Reversed(version_be) \o prev_hash_le \o merkle_root_le
        \o be_hex_to_le_bytes(ntime_be_hex) \o Reversed(nbits_be)
        \o be_hex_to_le_bytes(nonce_be_hex)

\* test_sender.main, steps 2 to 4: the header rebuilt from job.json,
\* solution.json and template.json
sender_main(j, sol, tmpl, extranonce1) ==
    LET coinbase        == j.coinb1 \o extranonce1 \o sol.extranonce2 \o j.coinb2
        coinbase_txid   == hex(Reversed(double_sha256(coinbase)))
        merkle_root_hex == calculate_merkle_root(coinbase_txid, tmpl.transactions)
        merkle_root_le  == Reversed(fromhex(merkle_root_hex))
    IN  sender_build_block_header(j.version, j.prevhash, merkle_root_le,
                                  sol.ntime, j.nbits, sol.nonce)

(***************************************************************************)
(* The library functions, each called on its own: the arguments are drawn  *)
(* when the call is made, one step computes what the call returns.         *)
(***************************************************************************)
\* The sequences over S of length up to n.
RECURSIVE SeqsUpTo(_, _)
SeqsUpTo(S, n) ==
    IF n = 0 THEN { <<>> }
    ELSE LET R == SeqsUpTo(S, n - 1)
         IN  R \cup { Append(r, x) : r \in { q \in R : Len(q) = n - 1 }, x \in S }

\* A call that has not returned yet.
Call(name, Inputs) ==
    fn_name = name /\ fn_args \in Inputs /\ fn_done = FALSE /\ fn_ret = <<>>

\* The call returns value.
Return(name, value) ==
    /\ fn_name = name /\ ~fn_done
    /\ fn_done' = TRUE
    /\ fn_ret' = value
    /\ UNCHANGED <<fn_name, fn_args, minerVars, poolVars, launchVars,
                   clientVars>>

\* Arguments of serialize_block: a mined header, the coinbase and up to
\* MaxTxs transactions, with or without 'data'.
SampleHeader == AsSeq([k \in 1..80 |-> k], 80)
SampleTxs == { Tx(1, <<17>>), Tx(2, <<34, 35>>), TxNoData(3) }
SerializeInputs ==
    { <<SampleHeader, CoinbaseTx, txs>> : txs \in SeqsUpTo(SampleTxs, MaxTxs) }

\* STEP 9 of main(): serialize_block and the test of what it returned.
SerializeStep ==
    Return("serialize_block",
           LET b == serialize_block(fn_args[1], fn_args[2], fn_args[3])
           IN  [serialized_block |-> b, next |-> AfterSerialize(b)])

\* Transaction ids as hex strings of 64 digits: zeros but for the last byte.
Txid(id) == hex(HashBytes(id))
SampleTxids == { Txid(17), Txid(34), Txid(35) }

\* Arguments of merkle_branch and extract_merkle_branch: a non-empty list of
\* up to MaxLeaves ids and an index into it.
MerkleInputs ==
    UNION { { <<txids, index>> : index \in 0..(Len(txids) - 1) } :
            txids \in SeqsUpTo(SampleTxids, MaxLeaves) }

\* merkle_branch(txids, index) and compute_merkle_root(txids)
MerkleBranchStep ==
    Return("merkle_branch",
           [branch |-> merkle_branch(fn_args[1], fn_args[2]),
            root   |-> compute_merkle_root(fn_args[1])])

\* tree = build_merkle_tree(leaves); extract_merkle_branch(tree, index)
ExtractBranchStep ==
    Return("extract_merkle_branch",
           LET tree == build_merkle_tree(fn_args[1])
           IN  [branch |-> extract_merkle_branch(tree, fn_args[2]),
                root   |-> tree[Len(tree)][1]])

\* Arguments of the coinbase check: a non-empty list of ids, coinbase first.
CoinbaseFirstInputs ==
    { <<txids>> : txids \in SeqsUpTo(SampleTxids, MaxLeaves) \ { <<>> } }

\* verify_merkle_branch(txids[0], get_coinbase_merkle_branch(txids),
\*                      compute_merkle_root(txids))
VerifyBranchStep ==
    Return("verify_merkle_branch",
           [ok |-> verify_merkle_branch(fn_args[1][1],
                                        get_coinbase_merkle_branch(fn_args[1]),
                                        compute_merkle_root(fn_args[1]))])

\* Arguments of the notify branch: a coinbase id and a template with up to
\* MaxTxs transactions, each a dict with its 'hash'.
NotifyInputs ==
    { <<coinbase_txid, [transactions |-> txs]>> :
        coinbase_txid \in SampleTxids,
        txs \in SeqsUpTo({ [hash |-> h] : h \in SampleTxids }, MaxTxs) }

\* calculate_merkle_branch(template) and
\* calculate_merkle_root(coinbase_txid, template['transactions'])
NotifyBranchStep ==
    Return("calculate_merkle_branch",
           [branch |-> calculate_merkle_branch(fn_args[2]),
            root   |-> calculate_merkle_root(fn_args[1],
                                             fn_args[2].transactions)])

\* Arguments of split_coinbase: hex strings in either case.
HexChars == { "a", "b", "A" }
SplitInputs ==
    { <<coinbase_hex, ex1, ex2>> :
        coinbase_hex \in SeqsUpTo(HexChars, MaxCoinbaseLen),
        ex1 \in SeqsUpTo(HexChars, MaxExLen) \ { <<>> },
        ex2 \in SeqsUpTo(HexChars, MaxExLen) \ { <<>> } }

\* split_coinbase(coinbase_hex, ex1, ex2)
SplitStep ==
    Return("split_coinbase", split_coinbase(fn_args[1], fn_args[2], fn_args[3]))

\* Arguments of encode_varint: values around the thresholds of each width.
LowBytes  == { 0, 1, 252, 253, 255 }
HighBytes == { 0, 255 }
VarintInputs ==
    { << Le8(b1, b2, b3, b4, b5, b6, b7, b8) >> :
        b1 \in LowBytes, b2 \in LowBytes, b3 \in HighBytes, b4 \in HighBytes,
        b5 \in HighBytes, b6 \in HighBytes, b7 \in HighBytes, b8 \in HighBytes }

\* encode_varint(value)
VarintStep == Return("encode_varint", encode_varint(fn_args[1]))

\* Arguments of decode_nbits: compact values whose target fits 256 bits,
\* with small, middle and the largest exponent, and exponents below 3.
NbitsExponents == { 0, 2, 3, 4, 5, 32 }
NbitsBytes == { 0, 1, 127, 128, 255 }
NbitsInputs ==
    { << <<e, s1, s2, s3>> >> :
        e \in NbitsExponents, s1 \in NbitsBytes, s2 \in NbitsBytes,
        s3 \in NbitsBytes }

\* t = decode_nbits(bits); decode_nbits(target_to_nbits(t))
NbitsRoundTripStep ==
    Return("decode_nbits",
           LET t == decode_nbits(fn_args[1])
           IN  IF t = NegativeShift
               THEN [t |-> t, nbits |-> <<>>, again |-> <<>>]
               ELSE [t |-> t, nbits |-> target_to_nbits(t),
                     again |-> decode_nbits(target_to_nbits(t))])

\* Arguments of the rescaling: a template's bits, the chain and the factor
\* (-1, 0, 0.1, 1, 256, 256^-4, 256^-5).
SampleBits == { <<32, 127, 255, 255>>, <<29, 0, 255, 255>> }
SampleFactors ==
    { Factor(-1, 10, 0), FactorZero, FactorTenth, FactorOne, Factor(1, 10, 1),
      Factor(1, 10, -4), Factor(1, 10, -5) }
RescaleInputs ==
    { << [bits |-> b], network, f >> :
        b \in SampleBits, network \in Networks, f \in SampleFactors }

\* main.py: modified_target = modifica_target(template, rpc_template)
ModificaTargetStep ==
    Return("modifica_target",
           modifica_target(fn_args[1], fn_args[2], fn_args[3]))

\* test/utils.py: modifica_target(template, rpc_conn)
CalculateTargetStep ==
    Return("calculate_target",
           utils_modifica_target(fn_args[1], fn_args[2], fn_args[3]))

\* Heights around every change of the encoding's length and sign byte.
SampleHeights ==
    (-1..300) \cup { 32767, 32768, 65535, 65536, 8388607, 8388608, 16777215 }

HeightInputs == { <<h>> : h \in SampleHeights }

\* script_sig_hex = tx_encode_coinbase_height(height), GetBlockTemplate
EncodeHeightStep ==
    Return("tx_encode_coinbase_height", tx_encode_coinbase_height(fn_args[1]))

\* script_sig_hex = tx_encode_coinbase_height(height), RPC-Based
RpcEncodeHeightStep ==
    Return("rpc_tx_encode_coinbase_height",
           rpc_tx_encode_coinbase_height(fn_args[1]))

\* A 32-byte hash as 64 hex digits, and the node's full commitment script.
BareCommitment(d) == AsSeq([k \in 1..64 |-> d], 64)
FullCommitment(d) == hex(CommitmentHeader) \o BareCommitment(d)
SampleCommitments ==
    { <<>>, BareCommitment(0), BareCommitment(11), FullCommitment(0),
      FullCommitment(11), <<10, 11>> }
SampleMessages == { <<>>, <<47, 80, 47>>, Zeros(100) }
CoinbaseInputs ==
    { << [height |-> h, coinbasevalue |-> v, default_witness_commitment |-> wc],
         <<0, 20>> \o Zeros(20), m, <<u, 2, 3, 4>> >> :
        h \in {0, 1, 128, 300}, v \in {0, 5000}, wc \in SampleCommitments,
        m \in SampleMessages, u \in {0, 106} }

\* coinbase_tx = build_coinbase_transaction(template, miner_script_pubkey,
\* coinbase_message), RPC-Based
RpcBuildCoinbaseStep ==
    Return("rpc_build_coinbase_transaction",
           rpc_build_coinbase_transaction(fn_args[1], fn_args[2], fn_args[3],
                                          fn_args[4]))

\* calculate_merkle_root(coinbase_txid, transactions) of the leaves and of
\* the leaves with one more copy of the last one
MerkleRootStep ==
    LET txs  == fn_args[2].transactions
        last == IF txs = <<>> THEN [hash |-> fn_args[1]] ELSE txs[Len(txs)]
    IN  Return("calculate_merkle_root",
               [root     |-> calculate_merkle_root(fn_args[1], txs),
                appended |-> calculate_merkle_root(fn_args[1],
                                                   Append(txs, last))])

\* Arguments of the share search: a template with up to MaxTxs transactions
\* and the extranonce2 the miner draws.
ShareTemplates ==
    { [version |-> 536870912, previousblockhash |-> HashBytes(9),
       curtime |-> 257, bits |-> <<32, 127, 255, 255>>, transactions |-> txs] :
        txs \in SeqsUpTo({ [hash |-> h] : h \in SampleTxids }, MaxTxs) }
ShareInputs ==
    { <<tpl, <<0, 0, 0, x>> >> : tpl \in ShareTemplates, x \in {0, 1, 5} }

\* test/main.py, test_miner.py and test_sender.py run one after the other and
\* hand over job.json and solution.json.  test/main.py writes the job:
TestMainStep ==
    /\ fn_name = "test_main" /\ ~fn_done
    /\ fn_name' = "test_miner"
    /\ fn_ret' = [job |-> create_mining_notify_params(
                              fn_args[1], <<1, 0, 3>>, <<255, 255>>,
                              calculate_merkle_branch(fn_args[1]))]
    /\ UNCHANGED <<fn_args, fn_done, minerVars, poolVars, launchVars,
                   clientVars>>

\* test_miner.py: mine(job, EXTRANONCE1) on the job of job.json.
TestMinerStep ==
    /\ fn_name = "test_miner" /\ ~fn_done
    /\ fn_name' = "test_sender"
    /\ fn_ret' = [job |-> fn_ret.job,
                  solution |-> mine(fn_ret.job, EXTRANONCE1, fn_args[2], MaxNonce)]
    /\ UNCHANGED <<fn_args, fn_done, minerVars, poolVars, launchVars,
                   clientVars>>

\* test_sender.py: main() rebuilds the header from job.json, solution.json
\* and template.json; without a solution.json there is nothing to rebuild.
TestSenderStep ==
    Return("test_sender",
           [solution |-> fn_ret.solution,
            rebuilt  |-> IF fn_ret.solution.found
                         THEN sender_main(fn_ret.job, fn_ret.solution,
                                          fn_args[1], EXTRANONCE1)
                         ELSE <<>>,
            target   |-> decode_nbits(fn_ret.job.nbits)])

FnInit ==
    /\ MinerIdle /\ nonce_mode = "mixed" /\ PoolIdle /\ LauncherIdle
    /\ ClientIdle
    /\ \/ Call("serialize_block", SerializeInputs)
       \/ Call("merkle_branch", MerkleInputs)
       \/ Call("extract_merkle_branch", MerkleInputs)
       \/ Call("verify_merkle_branch", CoinbaseFirstInputs)
       \/ Call("calculate_merkle_branch", NotifyInputs)
       \/ Call("split_coinbase", SplitInputs)
       \/ Call("encode_varint", VarintInputs)
       \/ Call("decode_nbits", NbitsInputs)
       \/ Call("modifica_target", RescaleInputs)
       \/ Call("calculate_target", RescaleInputs)
       \/ Call("tx_encode_coinbase_height", HeightInputs)
       \/ Call("rpc_tx_encode_coinbase_height", HeightInputs)
       \/ Call("rpc_build_coinbase_transaction", CoinbaseInputs)
       \/ Call("calculate_merkle_root", NotifyInputs)
       \/ Call("test_main", ShareInputs)

FnNext ==
    \/ TestMainStep
    \/ TestMinerStep
    \/ TestSenderStep
    \/ MerkleRootStep
    \/ RpcBuildCoinbaseStep
    \/ RpcEncodeHeightStep
    \/ EncodeHeightStep
    \/ SerializeStep
    \/ MerkleBranchStep
    \/ ExtractBranchStep
    \/ VerifyBranchStep
    \/ NotifyBranchStep
    \/ SplitStep
    \/ VarintStep
    \/ NbitsRoundTripStep
    \/ ModificaTargetStep
    \/ CalculateTargetStep

FnSpec == FnInit /\ [][FnNext]_vars

(***************************************************************************)
(* Properties of the mining cycle, the watchdog and the nonce search.      *)
(***************************************************************************)
\* C1: when the stop event is set while mine_block is searching, the batch
\* in progress is the last one of that search: at its end mine_block has
\* returned, and it has returned no header unless that batch met the target.
C1_CancelWithinBatch ==
    [][ (stop_event /\ mb_pc = "batch" /\ mb_pc' # "batch")
            => mb_pc' = "returned" ]_vars

\* C3: a header returned by mine_block is 80 bytes long, ends with the
\* returned nonce in little-endian, and its double SHA-256, read in display
\* order, is not above the target; also after a timestamp refresh.
C3_ReturnedHeaderMeetsTarget ==
    mined.header # NoHeader =>
        /\ Len(mined.header) = 80
        /\ SubSeq(mined.header, 77, 80) = pack_I(mined.nonce)
        /\ ~BytesLess(target_be(modified_target),
                      Reversed(double_sha256(mined.header)))

\* C3, the case: a header returned after the timestamp was refreshed.
C3_Witness ==
    /\ mined.header # NoHeader
    /\ SubSeq(mined.header, 69, 72) # pack_I(FromInt(template.curtime))

C11_RpcFailureNeverFatal ==
    [][ (cycle_error' \in RpcErrors /\ cycle_error' # cycle_error)
            => cy_pc' \in {"sleep5", "pause"} ]_vars

\* C11, as amended: an RPC failure inside the loop of main() is logged and
\* leaves main() in a fixed pause that ends in the next template fetch; a
\* failed best-block poll leaves the watchdog polling and main() where it
\* is; only the startup connection check ends the process, with its error
\* logged.
C11_LoopRpcFailureNeverFatal ==
    /\ [][ (cycle_error' \in RpcErrors /\ cycle_error' # cycle_error)
             => IF cy_pc = "startup"
                THEN cy_pc' = "terminated" /\ cycle_error' = ConnectionError
                ELSE cy_pc' \in {"sleep5", "pause"} ]_vars
    /\ [][ (cy_pc \in {"sleep5", "pause"} /\ cy_pc' # cy_pc)
             => cy_pc' = "fetch" ]_vars
    /\ [][ (cy_pc' = "terminated" /\ cy_pc # "terminated")
             => cy_pc = "startup" ]_vars
    /\ [][ (/\ wd_pc = "sleep" /\ wd_pc' = "sleep" /\ wd_wake' # wd_wake
            /\ new_hash' = NoneHash)
             => (cy_pc' = cy_pc /\ stop_event' = stop_event) ]_vars

\* C11, the case: submitblock has failed after a found block and main() is in
\* its pause, and in an earlier cycle a block was submitted.
C11_Witness ==
    /\ cy_pc = "pause" /\ cycle_error = SubmitError
    /\ submitted.height = template.height
(***************************************************************************)
(* Properties of the pool server.                                          *)
(***************************************************************************)
\* C2: the pool answers a mining.submit with result true if and only if the
\* header rebuilt from the job, the extranonce1 and the submitted
\* {extranonce2, time, nonce} hashes to a value not above the job's target.
C2_AcceptIffMeetsTarget ==
    \A c \in Conns : \A k \in 1..Len(outbox[c]) :
        outbox[c][k].kind = "submit_resp" =>
            (outbox[c][k].result = TRUE <=>
                ShareMeetsTarget(JobOf(outbox[c][k].params[2]), EXTRANONCE1,
                                 outbox[c][k].params))

\* C4: whenever job.json holds a job, every open, authorized connection is
\* eventually sent the mining.notify of that job (unless the connection
\* closes or the job is replaced again first).
C4_NotifyOnJobReplace ==
    \A c \in Conns : \A j \in 1..(1 + MaxJobWrites) :
        (job.job_id = j /\ conn_pc[c] = "submit")
            ~> \/ conn_pc[c] # "submit"
               \/ job.job_id # j
               \/ \E k \in 1..Len(outbox[c]) : outbox[c][k] = Notify(JobOf(j))

\* C5: an open connection whose client sends nothing more is eventually
\* dropped: no read of handle_client waits forever.
C5_SilentClientDropped ==
    \A c \in Conns :
        (conn_pc[c] \in {"subscribe", "authorize", "submit"})
            ~> (conn_pc[c] = "closed" \/ inbox[c] # <<>> \/ eof[c])

\* C6: a mining.notify comes only after the answer to mining.subscribe and
\* then the answer to mining.authorize, with mining.set_difficulty right
\* before it; a connection whose first message is not mining.subscribe is
\* closed without any response, and a closed connection is sent nothing.
C6_NotifyAfterHandshake ==
    /\ [](\A c \in Conns : \A k \in 1..Len(outbox[c]) :
            outbox[c][k].kind = "mining.notify" =>
                /\ k >= 4
                /\ outbox[c][1].kind = "sub_resp"
                /\ outbox[c][k - 2].kind = "authorize_resp"
                /\ outbox[c][k - 1].kind = "mining.set_difficulty")
    /\ [][\A c \in Conns :
            (/\ conn_pc[c] = "subscribe" /\ conn_pc'[c] # "subscribe"
             /\ \/ inbox[c] = <<>>
                \/ ~Head(inbox[c]).json
                \/ Head(inbox[c]).method # "mining.subscribe")
                => (conn_pc'[c] = "closed" /\ outbox'[c] = <<>>)]_vars
    /\ [][\A c \in Conns :
            conn_pc[c] = "closed"
                => (conn_pc'[c] = "closed" /\ outbox'[c] = outbox[c])]_vars

\* C6, the case: one connection has been sent its notify, another one was
\* closed on the first line it sent (the client had not closed its side).
C6_Witness ==
    \E c, d \in Conns :
        /\ \E k \in 1..Len(outbox[c]) : outbox[c][k].kind = "mining.notify"
        /\ conn_pc[d] = "closed" /\ outbox[d] = <<>> /\ ~eof[d]

\* C7: when handle_client reads a malformed message (not JSON, a first
\* message other than mining.subscribe, a mining.submit with fewer than five
\* parameters) it drops that connection and only that one, and leaves the
\* stored job and the stored share as they are.
C7_MalformedDropped ==
    [][\A c \in Conns :
        (/\ conn_pc[c] \in {"subscribe", "authorize", "submit"}
         /\ inbox[c] # <<>> /\ inbox'[c] # inbox[c]
         /\ \/ ~Head(inbox[c]).json
            \/ conn_pc[c] = "subscribe"
                  /\ Head(inbox[c]).method # "mining.subscribe"
            \/ Head(inbox[c]).method = "mining.submit"
                  /\ Len(Head(inbox[c]).params) < 5)
            => /\ conn_pc'[c] = "closed"
               /\ \A d \in Conns \ {c} :
                     conn_pc'[d] = conn_pc[d] /\ outbox'[d] = outbox[d]
               /\ job' = job /\ solution' = solution]_vars
(***************************************************************************)
(* Properties of the launcher.                                             *)
(***************************************************************************)
\* C9: the workers started by launch() hold pairwise distinct extranonce2
\* values, each as wide as the base.
C9_DistinctSameWidth ==
    \A i, k \in DOMAIN worker_ex2 :
        (worker_ex2[i] # NotPatched /\ worker_ex2[k] # NotPatched) =>
            /\ Len(worker_ex2[i]) = Len(base_ex2)
            /\ i # k => worker_ex2[i] # worker_ex2[k]

C12_NoPartialBlock ==
    (fn_name = "serialize_block" /\ fn_done) =>
        ((\E k \in 1..Len(fn_args[3]) : "data" \notin fn_args[3][k].keys)
            => (fn_ret.serialized_block = NoBlock /\ fn_ret.next = "fetch"))

\* C12, the case: serialize_block has returned None for a list whose first
\* transaction has its 'data' and whose second one has not.
C12_Witness ==
    /\ fn_name = "serialize_block" /\ fn_done
    /\ Len(fn_args[3]) >= 2
    /\ "data" \in fn_args[3][1].keys /\ "data" \notin fn_args[3][2].keys
    /\ fn_ret.serialized_block = NoBlock

\* C14: for a non-empty list of ids and an index into it, folding the id at
\* that index with its branch (the sibling on the right when the running
\* index is even, on the left when odd, the index halved at each level)
\* gives the root of the whole list: for merkle_branch with
\* compute_merkle_root, whose ids and branch entries are in display order,
\* and for extract_merkle_branch with build_merkle_tree.
C14_BranchFoldsToRoot ==
    /\ (fn_name = "merkle_branch" /\ fn_done) =>
          LET swap(h) == hex(Reversed(fromhex(h)))
              wire    == [k \in 1..Len(fn_ret.branch) |-> swap(fn_ret.branch[k])]
          IN  swap(FoldHex(swap(fn_args[1][fn_args[2] + 1]), wire, fn_args[2]))
                  = fn_ret.root
    /\ (fn_name = "extract_merkle_branch" /\ fn_done) =>
          FoldHex(fn_args[1][fn_args[2] + 1], fn_ret.branch, fn_args[2])
              = fn_ret.root

\* C14, the case: the branch of the last of three different ids, whose first
\* sibling is its own duplicate on the right and whose second is on the left.
C14_Witness ==
    /\ fn_name = "extract_merkle_branch" /\ fn_done
    /\ Len(fn_args[1]) = 3 /\ fn_args[2] = 2
    /\ fn_args[1][1] # fn_args[1][2] /\ fn_args[1][2] # fn_args[1][3]
    /\ Len(fn_ret.branch) = 2
    /\ fn_ret.branch[1] = fn_args[1][3]
    /\ fn_ret.branch[2] # fn_ret.root

\* C15: for a non-empty list of ids with the coinbase first,
\* verify_merkle_branch(txids[0], get_coinbase_merkle_branch(txids),
\* compute_merkle_root(txids)) returns True.
C15_CoinbaseBranchVerifies ==
    (fn_name = "verify_merkle_branch" /\ fn_done) => fn_ret.ok

\* C16: calculate_merkle_branch(template) is the index-0 branch of the tree
\* calculate_merkle_root builds over the coinbase id and the template's
\* transaction ids: folding the coinbase hash as the left operand with the
\* branch entries gives calculate_merkle_root(coinbase_txid, transactions).
C16_NotifyBranchMatchesRoot ==
    (fn_name = "calculate_merkle_branch" /\ fn_done) =>
        hex(Reversed(fromhex(
            FoldHex(hex(Reversed(fromhex(fn_args[1]))), fn_ret.branch, 0))))
            = fn_ret.root

\* C17: for a coinbase hex string and an extranonce pair (ex1, ex2) whose
\* concatenation occurs exactly once in it, split_coinbase returns
\* (coinb1, ex1, ex2, coinb2) with coinb1 + ex1 + ex2 + coinb2 equal to the
\* original string.  Stated for strings in lower case, the form in which
\* the function returns them.
C17_SplitRejoins ==
    (/\ fn_name = "split_coinbase" /\ fn_done
     /\ \A k \in 1..3 : lower(fn_args[k]) = fn_args[k]
     /\ Cardinality(Occurrences(fn_args[1], fn_args[2] \o fn_args[3])) = 1)
        => /\ fn_ret.error = NoError
           /\ fn_ret.extranonce1 = fn_args[2]
           /\ fn_ret.extranonce2 = fn_args[3]
           /\ fn_ret.coinb1 \o fn_ret.extranonce1 \o fn_ret.extranonce2
                  \o fn_ret.coinb2 = fn_args[1]

\* C18: for every v in 0..2^64-1, encode_varint(v) is the single byte v when
\* v < 0xFD, and otherwise the prefix 0xFD, 0xFE or 0xFF followed by v in 2,
\* 4 or 8 bytes, little-endian, the smallest of these widths that holds v.
C18_VarintFormat ==
    (fn_name = "encode_varint" /\ fn_done) =>
        LET v == fn_args[1]
            fits(n) == \A k \in (n + 1)..8 : v[k] = 0
        IN  fn_ret = IF fits(1) /\ v[1] < 253 THEN << v[1] >>
                     ELSE IF fits(2) THEN << 253 >> \o SubSeq(v, 1, 2)
                     ELSE IF fits(4) THEN << 254 >> \o SubSeq(v, 1, 4)
                     ELSE << 255 >> \o v

\* C19: for every compact value bits that decode_nbits decodes, with
\* t = decode_nbits(bits), decode_nbits(target_to_nbits(t)) succeeds and is
\* t again; also for targets of three bytes or fewer and for the target 0.
C19_CompactRoundTrip ==
    (fn_name = "decode_nbits" /\ fn_done /\ fn_ret.t # NegativeShift)
        => fn_ret.again = fn_ret.t

CarriesCommitment(tx) ==
    \E i \in 1..(Len(tx) - 14) :
        /\ SubSeq(tx, i, i + 7) = Zeros(8)
        /\ SubSeq(tx, i + 9, i + 14) = CommitmentHeader

\* C21: the coinbase RPC-Based's build_coinbase_transaction returns carries
\* the zero-value witness-commitment output if and only if the template's
\* default_witness_commitment is not empty, whatever its length or form.
C21_CommitmentIffSignalled ==
    (/\ fn_name = "rpc_build_coinbase_transaction" /\ fn_done
     /\ fn_ret.error = NoError)
        => (CarriesCommitment(fn_ret.bytes)
                <=> fn_args[1].default_witness_commitment # <<>>)

\* The magnitude of a little-endian script number, the sign bit taken out of
\* its last byte.
RECURSIVE Magnitude(_)
Magnitude(data) ==
    IF data = <<>> THEN 0
    ELSE IF Len(data) = 1 THEN data[1] % 128
    ELSE data[1] + 256 * Magnitude(Tail(data))

\* The first byte of a push is the number of bytes that follow.
LengthPrefixed(push) == push # <<>> /\ push[1] = Len(push) - 1

\* A push read as a signed little-endian script number.
DecodeHeight(push) ==
    LET data == Tail(push)
    IN  IF data # <<>> /\ data[Len(data)] >= 128
        THEN 0 - Magnitude(data) ELSE Magnitude(data)

\* C22: for every height h >= 0, the output of GetBlockTemplate's
\* tx_encode_coinbase_height(h), decoded as a length-prefixed signed
\* little-endian script number, is h; height 0 gives the single zero byte.
C22_HeightRoundTrip ==
    (/\ fn_name = "tx_encode_coinbase_height" /\ fn_done /\ fn_args[1] >= 0)
        => /\ fn_ret.error = NoError
           /\ LengthPrefixed(fn_ret.bytes)
           /\ DecodeHeight(fn_ret.bytes) = fn_args[1]
           /\ fn_args[1] = 0 => fn_ret.bytes = <<0>>

\* C22, the case: height 128 was encoded with the byte that keeps it
\* positive.
C22_Witness ==
    /\ fn_name = "tx_encode_coinbase_height" /\ fn_done
    /\ fn_args[1] = 128 /\ fn_ret.bytes = <<2, 128, 0>>

\* C25: for every height h >= 1, RPC-Based's tx_encode_coinbase_height
\* pushes the minimal little-endian form of h, with a zero byte appended
\* when the top bit of its last byte is set, so that it decodes as h.
C25_RpcHeightDecodesPositive ==
    (/\ fn_name = "rpc_tx_encode_coinbase_height" /\ fn_done
     /\ fn_args[1] >= 1)
        => /\ fn_ret.error = NoError
           /\ LengthPrefixed(fn_ret.bytes)
           /\ DecodeHeight(fn_ret.bytes) = fn_args[1]
           /\ LET data == Tail(fn_ret.bytes)
              IN  data[Len(data)] = 0 => data[Len(data) - 1] >= 128

\* C23: for any non-empty leaf list of odd length, a single leaf included,
\* calculate_merkle_root gives the same root for the list and for the list
\* with one more copy of its last element.
C23_DuplicateLastSameRoot ==
    (/\ fn_name = "calculate_merkle_root" /\ fn_done
     /\ (1 + Len(fn_args[2].transactions)) % 2 = 1)
        => fn_ret.appended = fn_ret.root

\* C23, as amended: the same for an odd length of 3 or more; the root of a
\* single leaf is the leaf itself, in the byte order it was given.
C23_DuplicateLastSameRootFrom3 ==
    /\ (/\ fn_name = "calculate_merkle_root" /\ fn_done
        /\ (1 + Len(fn_args[2].transactions)) % 2 = 1
        /\ Len(fn_args[2].transactions) >= 2)
           => fn_ret.appended = fn_ret.root
    /\ (/\ fn_name = "calculate_merkle_root" /\ fn_done
        /\ fn_args[2].transactions = <<>>)
           => fn_ret.root = fn_args[1]

\* C23, the case: three different leaves, and the root of the four.
C23_Witness ==
    /\ fn_name = "calculate_merkle_root" /\ fn_done
    /\ Len(fn_args[2].transactions) = 2
    /\ fn_args[1] # fn_args[2].transactions[1].hash
    /\ fn_args[2].transactions[1].hash # fn_args[2].transactions[2].hash
    /\ fn_ret.appended = fn_ret.root

(***************************************************************************)
(* Properties of the nonce policy of mine_block.                           *)
(***************************************************************************)
\* C24: the candidate nonces follow the selected policy; in random mode
\* every attempt draws a fresh 32-bit value, so mine_block has called
\* random.randint once for each attempt it made when it returns.
C24_RandomDrawsEveryAttempt ==
    (nonce_mode = "random" /\ mb_pc = "returned") => draws = mined.attempts

(***************************************************************************)
(* Properties of the watchdog's polls and of the submitted header.         *)
(***************************************************************************)
\* C28: the watchdog sets the stop event only if the node's best-block hash
\* has changed since the watchdog started; a failed poll followed by a poll
\* that returns the unchanged hash cancels nothing.
C28_StopOnlyOnChange ==
    [][ (wd_pc = "sleep" /\ wd_pc' = "exit" /\ ~stop_event /\ stop_event')
            => HashBytes(bestHash) # template.previousblockhash ]_vars

C26_SenderRebuildsMinedHeader ==
    (fn_name = "test_sender" /\ fn_done /\ fn_ret.solution.found)
        => /\ fn_ret.rebuilt = fn_ret.solution.header
           /\ ~BytesLess(fn_ret.target, Reversed(double_sha256(fn_ret.rebuilt)))


\* The line w of a connection holds mining.subscribe and, after it,
\* mining.authorize.
SubscribedThenAuthorized(w) ==
    \E i, k \in 1..Len(w) :
        i < k /\ w[i] = "mining.subscribe" /\ w[k] = "mining.authorize"

\* C27: once the client holds a connection that is not its first, it
\* eventually sends mining.subscribe and then mining.authorize on it, unless
\* the pool closes that connection or the client takes it for lost again.
C27_ReconnectSubscribesAndAuthorizes ==
    \A c \in 2..MaxSockets :
        (sock = c /\ connected)
            ~> \/ SubscribedThenAuthorized(pool_rx[c])
               \/ c \in pool_closed
               \/ ~connected

\* C30: when job.json holds another job than the one mine() is searching
\* on, mine() eventually searches on the job of the file.
C30_MinerTakesNewJob ==
    (om_pc = "search" /\ job_file.state = "whole"
        /\ job_file.job_id # om_job.job_id)
        ~> (om_pc = "search" /\ om_job.job_id = job_file.job_id)

=============================================================================
